---- MODULE Spec2Model ----
(***************************************************************************)
(* Model of the riley voice agent: the media bridge of                     *)
(* api/routes/twilio_routes.py (one call session, its two relay pumps),    *)
(* the function-call dispatcher handle_function_call, the validation       *)
(* schema CustomerCallSchema, RedisClient.publish_event and the event      *)
(* router RedisConsumerService.                                            *)
(***************************************************************************)
EXTENDS FiniteSets, Integers, Naturals, Sequences, TLC

(***************************************************************************)
(* Bounds of the model.                                                    *)
(***************************************************************************)
\* playback marks sent to telephony during one session
MaxMarks == 2
\* event ids handed out by publish_event during one run
MaxEvents == 1
\* distinct function names the speech model calls during one session
MaxCalls == 1
\* event ids handed out to direct callers of publish_event during one run
MaxPublishes == 2
\* messages other clients of the server publish on the router's channels
MaxForeign == 1

\* the media timestamps (ms) a stream carries
Timestamps == {0, 2000, 5000}
StreamSids == {"MZ1"}
CallSids == {"CA1"}
ItemIds == {"item_A", "item_B"}
CallIds == {"call_1"}
Payloads == {"pcm1", "pcm2"}

(***************************************************************************)
(* Python's None for identifiers and for the response start timestamp.     *)
(***************************************************************************)
None == "None"
NoTimestamp == -1

VARIABLES
    stream_sid,                       \* twilio_routes.py:256
    call_sid,                         \* twilio_routes.py:265
    latest_media_timestamp,           \* twilio_routes.py:257
    last_assistant_item,              \* twilio_routes.py:258
    mark_queue,                       \* twilio_routes.py:259
    response_start_timestamp_twilio,  \* twilio_routes.py:260
    should_end,                       \* twilio_routes.py:302
    twilio_ws,                        \* telephony socket: "OPEN" / "CLOSED"
    openai_ws,                        \* model socket: "OPEN" / "CLOSED_OK" / "CLOSED_ERROR"
    recv_pc,                          \* receive_from_twilio: "running" / "done" / "failed"
    send_pc,                          \* send_to_twilio: "running" / "done"
    handler_pc,                       \* handle_media_stream: "running" / "exited"
    hangup_calls,                     \* call sids passed to TwilioService.hangup_call
    redis_connected,                  \* RedisClient.connected
    next_event_id,                    \* source of fresh uuid4 event ids
    sent_openai,                      \* messages sent upstream by the last step
    sent_twilio,                      \* messages sent to telephony by the last step
    published,                        \* channel deliveries made by the last step
    redis_writes,                     \* keyed-store writes made by the last step
    last_event,                       \* the inbound frame handled by the last step
    dispatched,                       \* history: function names dispatched so far
    mark_order,                       \* history: serial numbers of the mark requests sent
                                      \* since the last clear and not yet acknowledged
    marks_sent,                       \* history: number of mark requests sent
    running,                          \* redis_consumer_service.py:29, self.running
    consumer_pc,                      \* start_consuming: "idle" / "polling" / "handling" / "stopped"
    pubsub,                           \* messages buffered for the router's subscription
    handling,                         \* handler invocations begun and not yet returned
    processed                         \* history: the messages process_event has handled

session == <<stream_sid, call_sid, latest_media_timestamp, last_assistant_item,
             mark_queue, response_start_timestamp_twilio>>
sockets == <<twilio_ws, openai_ws>>
pumps == <<recv_pc, send_pc, handler_pc>>
outputs == <<sent_openai, sent_twilio, published, redis_writes>>
history == <<dispatched, mark_order, marks_sent>>
router == <<running, consumer_pc, pubsub, handling, processed>>
vars == <<stream_sid, call_sid, latest_media_timestamp, last_assistant_item,
          mark_queue, response_start_timestamp_twilio, should_end, twilio_ws,
          openai_ws, recv_pc, send_pc, handler_pc, hangup_calls,
          redis_connected, next_event_id, sent_openai, sent_twilio, published,
          redis_writes, last_event, dispatched, mark_order, marks_sent,
          running, consumer_pc, pubsub, handling, processed>>

(***************************************************************************)
(* Validation schema: data_types/customer.py, CustomerCallSchema.          *)
(* A payload is a function from its keys to string values.                 *)
(***************************************************************************)
MinNameLen == 2
MaxNameLen == 100
ContactMethods == {"Whatsapp", "Email", "Phone"}
\* a schema whose reason_calling is optional
RequiredFieldsNoReason == {"timestamp", "full_name", "preferred_contact_method"}

RequiredFields == {"timestamp", "full_name", "reason_calling", "preferred_contact_method"}
SchemaFields == RequiredFields \cup {"phone_number", "email", "address", "additional_notes"}
NowIso == "2026-01-01T10:00:00"

Get(d, k) == IF k \in DOMAIN d THEN d[k] ELSE None

\* fields.DateTime(format="iso") accepts the text
IsIsoDateTime(value) == value = NowIso

\* the datetime object fields.DateTime deserializes the text to
ParseIso(value) == <<"datetime", value>>

\* post_load make_object: CustomerCall(**data); a field is the sequence that holds
\* its value, empty for None
CustomerCall(data) ==
    [k \in SchemaFields |->
        IF k = "timestamp" THEN ParseIso(data[k])
        ELSE IF k \in DOMAIN data THEN <<data[k]>> ELSE <<>>]

\* a schema with unknown = EXCLUDE: keys that are no field are dropped
SchemaErrorsExclude(data) ==
    {<<f, "Missing data for required field.">> : f \in RequiredFields \ DOMAIN data}
    \cup (IF "full_name" \in DOMAIN data
             /\ ~(Len(data["full_name"]) >= MinNameLen /\ Len(data["full_name"]) <= MaxNameLen)
          THEN {<<"full_name", "Length must be between 2 and 100.">>} ELSE {})
    \cup (IF "preferred_contact_method" \in DOMAIN data
             /\ data["preferred_contact_method"] \notin ContactMethods
          THEN {<<"preferred_contact_method", "Must be one of: Whatsapp, Email, Phone.">>} ELSE {})

\* marshmallow Schema.load: the messages of ValidationError, as (field, message) pairs;
\* keys the schema does not declare are rejected (the library's default, unknown = RAISE)
SchemaErrors(data) ==
    {<<f, "Missing data for required field.">> : f \in RequiredFields \ DOMAIN data}
    \cup {<<f, "Unknown field.">> : f \in DOMAIN data \ SchemaFields}
    \cup (IF "timestamp" \in DOMAIN data /\ ~IsIsoDateTime(data["timestamp"])
          THEN {<<"timestamp", "Not a valid datetime.">>} ELSE {})
    \cup (IF "full_name" \in DOMAIN data
             /\ ~(Len(data["full_name"]) >= MinNameLen /\ Len(data["full_name"]) <= MaxNameLen)
          THEN {<<"full_name", "Length must be between 2 and 100.">>} ELSE {})
    \cup (IF "preferred_contact_method" \in DOMAIN data
             /\ data["preferred_contact_method"] \notin ContactMethods
          THEN {<<"preferred_contact_method", "Must be one of: Whatsapp, Email, Phone.">>} ELSE {})

SchemaLoads(data) == SchemaErrors(data) = {}

\* validation_data = {**arguments, "timestamp": datetime.now().isoformat()}
WithTimestamp(arguments) ==
    [k \in DOMAIN arguments \cup {"timestamp"} |->
        IF k = "timestamp" THEN NowIso ELSE arguments[k]]

\* validation_data[new_key] = validation_data.pop(old_key), when old_key is present
RenameKey(data, old_key, new_key) ==
    IF old_key \in DOMAIN data
    THEN [k \in (DOMAIN data \ {old_key}) \cup {new_key} |->
            IF k = new_key THEN data[old_key] ELSE data[k]]
    ELSE data

\* a mapping pass that renames nothing
FieldMappingNone(data) == data

\* field_mapping applied in its insertion order
FieldMapping(data) ==
    RenameKey(RenameKey(data, "preferred_contact", "preferred_contact_method"),
              "notes", "additional_notes")

(***************************************************************************)
(* Event bus: infrastructure/redis/redis_client.py.                        *)
(***************************************************************************)
Retention == 86400
DefaultChannel == "customer:general"
PriorityChannel == "customer:priority:high"
RoutedTypes == {"customer_data", "customer_data_invalid", "meeting_scheduled",
                "email_request", "high_priority"}

\* REDIS_CHANNELS.get(event_type, 'customer:general')
ChannelOf(event_type) ==
    CASE event_type = "customer_data" -> "customer:data:new"
      [] event_type = "customer_data_invalid" -> "customer:data:invalid"
      [] event_type = "meeting_scheduled" -> "customer:meeting:scheduled"
      [] event_type = "email_request" -> "customer:email:request"
      [] event_type = "high_priority" -> PriorityChannel
      [] OTHER -> DefaultChannel

\* which transport operation of a call raises, if any
TransportFailures == {"none", "publish", "setex", "priority", "snapshot"}

\* a publisher that never marks an envelope urgent
IsUrgentNever(data) == FALSE

\* line 73: data.get('urgency') in ['high', 'urgent']
IsUrgent(data) == Get(data, "urgency") \in {"high", "urgent"}

\* RedisClient.publish_event: the value returned, the channel deliveries and the
\* keyed-store writes it performed, and whether an event id was drawn
\* an envelope without the call identifier
EventPayloadNoCallSid(event_type, data, stream_id, call_id, eid) ==
    [event_id |-> eid, event_type |-> event_type, timestamp |-> NowIso,
     stream_id |-> stream_id, call_sid |-> None, data |-> data]

\* an envelope whose identifier does not change from one call to the next
EventPayloadFixedId(event_type, data, stream_id, call_id, eid) ==
    [event_id |-> 0, event_type |-> event_type, timestamp |-> NowIso,
     stream_id |-> stream_id, call_sid |-> call_id, data |-> data]

\* lines 53-60: event_payload; eid stands for str(uuid.uuid4())
EventPayload(event_type, data, stream_id, call_id, eid) ==
    [event_id |-> eid, event_type |-> event_type, timestamp |-> NowIso,
     stream_id |-> stream_id, call_sid |-> call_id, data |-> data]

\* a handler that logs the failure and reports success
PublishFailedSilently(deliveries, writes) ==
    [ok |-> TRUE, deliveries |-> deliveries, writes |-> writes, ids |-> 1]

\* a failure that takes back what was done before it
PublishFailedUndone(deliveries, writes) ==
    [ok |-> FALSE, deliveries |-> <<>>, writes |-> <<>>, ids |-> 1]

\* lines 80-82: except Exception, return False; what was done before stays done
PublishFailed(deliveries, writes) ==
    [ok |-> FALSE, deliveries |-> deliveries, writes |-> writes, ids |-> 1]

\* a key built from the stream id as it is
SessionKeyAsIs(stream_id, eid) == <<"customer:session", stream_id, eid>>

\* line 69: f"customer:session:{stream_id or 'unknown'}:{event_payload['event_id']}"
SessionKey(stream_id, eid) ==
    <<"customer:session", IF stream_id = None THEN "unknown" ELSE stream_id, eid>>

publish_event(event_type, data, stream_id, call_id, eid, connected, fail) ==
    LET event_payload == EventPayload(event_type, data, stream_id, call_id, eid)
        canonical == [channel |-> ChannelOf(event_type), message |-> event_payload]
        copy == [key |-> SessionKey(stream_id, eid),
                 ttl |-> Retention, value |-> event_payload]
        priority == [channel |-> PriorityChannel, message |-> event_payload]
    IN  IF ~connected
        THEN [ok |-> FALSE, deliveries |-> <<>>, writes |-> <<>>, ids |-> 0]
        ELSE IF fail = "publish"
        THEN PublishFailed(<<>>, <<>>)
        ELSE IF fail = "setex"
        THEN PublishFailed(<<canonical>>, <<>>)
        ELSE IF ~IsUrgent(data)
        THEN [ok |-> TRUE, deliveries |-> <<canonical>>, writes |-> <<copy>>, ids |-> 1]
        ELSE IF fail = "priority"
        THEN PublishFailed(<<canonical>>, <<copy>>)
        ELSE [ok |-> TRUE, deliveries |-> <<canonical, priority>>,
              writes |-> <<copy>>, ids |-> 1]

\* RedisClient.store_customer_session
store_customer_session(stream_id, data, connected, fail) ==
    IF ~connected \/ fail = "snapshot"
    THEN [ok |-> FALSE, writes |-> <<>>]
    ELSE [ok |-> TRUE,
          writes |-> <<[key |-> <<"customer:session", stream_id>>, ttl |-> Retention,
                        value |-> [stream_id |-> stream_id, timestamp |-> NowIso,
                                   data |-> data, status |-> "active"]]>>]

\* list(settings.REDIS_CHANNELS.values()): the channels start_consuming subscribes to
SubscribedChannels == {ChannelOf(t) : t \in RoutedTypes}

\* the server hands a publication to the router's subscription only while the
\* router is subscribed, and only on the channels it subscribed to
Deliver(buffer, deliveries, subscribed) ==
    IF subscribed
    THEN buffer \o SelectSeq(deliveries, LAMBDA d : d.channel \in SubscribedChannels)
    ELSE buffer

\* start_consuming between subscribe_to_channels and the unsubscribe of its
\* finally clause
Subscribed == consumer_pc \in {"polling", "handling"}

(***************************************************************************)
(* Function-call dispatcher: api/routes/twilio_routes.py,                  *)
(* handle_function_call.                                                   *)
(***************************************************************************)
KnownFunctions == {"gather_client_information", "set_up_meeting", "send_business_email"}

\* {**arguments, extra_key: extra_value}
With(arguments, extra) ==
    [k \in DOMAIN arguments \cup DOMAIN extra |->
        IF k \in DOMAIN extra THEN extra[k] ELSE arguments[k]]

\* a fall-through branch that records the call as an event and a session snapshot
UnknownFunctionRecorded(function_name, arguments, stream_id, call_id, eid, connected, fail) ==
    LET pub == publish_event(function_name, arguments, stream_id, call_id,
                             eid, connected, fail)
        snap == store_customer_session(IF stream_id = None THEN "unknown" ELSE stream_id,
                                       arguments, connected, fail)
    IN  [result |-> [status |-> "error", message |-> <<"Unknown function">>],
         deliveries |-> pub.deliveries, writes |-> pub.writes \o snap.writes,
         ids |-> pub.ids]

\* line 533: no branch matches the function name
UnknownFunction(function_name, arguments, stream_id, call_id, eid, connected, fail) ==
    [result |-> [status |-> "error", message |-> <<"Unknown function">>],
     deliveries |-> <<>>, writes |-> <<>>, ids |-> 0]

\* a dispatcher that reports a publication that failed
AcknowledgeOutcome(result, pub) ==
    IF pub.ok THEN result ELSE [status |-> "error", message |-> <<"Publishing failed">>]

\* lines 472, 480-485, 511-516 and 523-528: the value publish_event returns is
\* dropped and the acknowledgement is built from the arguments
Acknowledge(result, pub) == result

\* the message of a result is the sequence of the parts of its text
handle_function_call(function_name, arguments, stream_id, call_id, eid, connected, fail) ==
    IF function_name = "gather_client_information"
    THEN LET validation_data == FieldMapping(WithTimestamp(arguments))
         IN  IF SchemaLoads(validation_data)
             THEN LET pub == publish_event("customer_data", arguments, stream_id, None,
                                           eid, connected, fail)
                      snap == store_customer_session(
                                  IF stream_id = None THEN "unknown" ELSE stream_id,
                                  With(arguments, [timestamp |-> NowIso,
                                                   validation_status |-> "valid",
                                                   call_sid |-> call_id]),
                                  connected, fail)
                  IN  [result |-> Acknowledge(
                                      [status |-> "success",
                                       message |-> <<"Customer information collected and validated successfully">>,
                                       data_collected |-> DOMAIN arguments,
                                       validation_status |-> "passed"], pub),
                       deliveries |-> pub.deliveries,
                       writes |-> pub.writes \o snap.writes,
                       ids |-> pub.ids]
             ELSE LET pub == publish_event("customer_data_invalid",
                                           With(arguments,
                                                [validation_error |-> SchemaErrors(validation_data)]),
                                           stream_id, None, eid, connected, fail)
                  IN  [result |-> Acknowledge(
                                      [status |-> "warning",
                                       message |-> <<"Customer information collected but validation failed. Please verify data manually.">>,
                                       data_collected |-> DOMAIN arguments,
                                       validation_status |-> "failed",
                                       validation_error |-> SchemaErrors(validation_data)],
                                      pub),
                       deliveries |-> pub.deliveries,
                       writes |-> pub.writes,
                       ids |-> pub.ids]
    ELSE IF function_name = "set_up_meeting"
    THEN LET pub == publish_event("meeting_scheduled", arguments, stream_id, call_id,
                                  eid, connected, fail)
         IN  [result |-> Acknowledge(
                             [status |-> "success",
                              message |-> <<"Meeting scheduled for",
                                            Get(arguments, "client_name"),
                                            "on", Get(arguments, "preferred_date"),
                                            "at", Get(arguments, "preferred_time")>>],
                             pub),
              deliveries |-> pub.deliveries, writes |-> pub.writes, ids |-> pub.ids]
    ELSE IF function_name = "send_business_email"
    THEN LET pub == publish_event("email_request", arguments, stream_id, call_id,
                                  eid, connected, fail)
         IN  [result |-> Acknowledge(
                             [status |-> "success",
                              message |-> <<"Business email sent with client details">>],
                             pub),
              deliveries |-> pub.deliveries, writes |-> pub.writes, ids |-> pub.ids]
    ELSE UnknownFunction(function_name, arguments, stream_id, call_id, eid,
                         connected, fail)

(***************************************************************************)
(* Arguments the speech model may send with a function call.               *)
(***************************************************************************)
Name1 == "A"
Name2 == "Al"
Name100 == "abcdefghijabcdefghijabcdefghijabcdefghijabcdefghijabcdefghijabcdefghijabcdefghijabcdefghijabcdefghij"
Name101 == "abcdefghijabcdefghijabcdefghijabcdefghijabcdefghijabcdefghijabcdefghijabcdefghijabcdefghijabcdefghijk"

GatherKeys == {"full_name", "reason_calling", "preferred_contact_method",
               "preferred_contact", "notes", "urgency"}

GatherValues(k) ==
    CASE k = "full_name" -> {Name1, Name2, Name100, Name101}
      [] k = "reason_calling" -> {"leak"}
      [] k = "preferred_contact_method" -> {"Whatsapp", "Email", "Phone", "Fax"}
      [] k = "preferred_contact" -> {"Email", "Fax"}
      [] k = "notes" -> {"call back"}
      [] k = "urgency" -> {"high"}

\* every dictionary over a subset of GatherKeys
GatherArguments ==
    UNION {{a \in [S -> UNION {GatherValues(k) : k \in GatherKeys}] :
               \A k \in S : a[k] \in GatherValues(k)} : S \in SUBSET GatherKeys}

(***************************************************************************)
(* Inputs of one call session.                                             *)
(***************************************************************************)
\* function calls the speech model issues during a bridged call
BridgeCalls ==
    {[name |-> "gather_client_information",
      arguments |-> [full_name |-> Name2, reason_calling |-> "leak",
                     preferred_contact_method |-> "Whatsapp"]],
     [name |-> "gather_client_information",
      arguments |-> [full_name |-> Name2, preferred_contact_method |-> "Email"]],
     [name |-> "set_up_meeting",
      arguments |-> [client_name |-> Name2, preferred_date |-> "Monday",
                     preferred_time |-> "10:00"]],
     [name |-> "send_business_email",
      arguments |-> [client_data |-> Name2, priority |-> "high"]],
     [name |-> "transfer_call", arguments |-> [phone_number |-> "555"]]}

\* function calls over every branch of the dispatcher, with and without an
\* urgency marker, and names that differ from the known ones by case only
SessionCalls ==
    BridgeCalls \cup
    {[name |-> "set_up_meeting",
      arguments |-> [client_name |-> Name2, preferred_date |-> "Monday",
                     preferred_time |-> "10:00", urgency |-> "high"]],
     [name |-> "set_up_meeting", arguments |-> [meeting_type |-> "video"]],
     [name |-> "send_business_email",
      arguments |-> [client_data |-> Name2, urgency |-> "urgent"]],
     [name |-> "Set_Up_Meeting",
      arguments |-> [client_name |-> Name2, preferred_date |-> "Monday",
                     preferred_time |-> "10:00"]],
     [name |-> "end_call", arguments |-> [urgency |-> "high"]]}

\* transport failures met during a bridged call
BridgeFailures == {"none", "publish"}

\* every gather_client_information call over GatherArguments
GatherCalls == {[name |-> "gather_client_information", arguments |-> a] : a \in GatherArguments}

\* base64 text of an audio delta: canonical, with an ignorable character, truncated
Deltas == {"QUJD", "QU JD", "QUJ"}

\* base64.b64decode(delta): non-alphabet characters are discarded, wrong padding raises
B64Decodes(delta) == delta \in {"QUJD", "QU JD"}

\* base64.b64encode(base64.b64decode(delta)).decode('utf-8')
B64Reencode(delta) == IF delta = "QU JD" THEN "QUJD" ELSE delta

(***************************************************************************)
(* handle_media_stream: the state after accept(), connect() and the first  *)
(* initialize_session(openai_ws), in an application whose startup has      *)
(* connected the bus (app.py:24).                                          *)
(***************************************************************************)
\* RedisConsumerService.__init__, before start_consuming is called
RouterIdle ==
    /\ running = FALSE
    /\ consumer_pc = "idle"
    /\ pubsub = <<>>
    /\ handling = <<>>
    /\ processed = <<>>

\* initialize_session(openai_ws, owner, business)
SessionUpdate(with_business) ==
    [type |-> "session.update",
     instructions |-> IF with_business THEN "format_prompt" ELSE "SYSTEM_MESSAGE"]

Init ==
    /\ stream_sid = None
    /\ call_sid = None
    /\ latest_media_timestamp = 0
    /\ last_assistant_item = None
    /\ mark_queue = <<>>
    /\ response_start_timestamp_twilio = NoTimestamp
    /\ should_end = FALSE
    /\ twilio_ws = "OPEN"
    /\ openai_ws = "OPEN"
    /\ recv_pc = "running"
    /\ send_pc = "running"
    /\ handler_pc = "running"
    /\ hangup_calls = <<>>
    /\ redis_connected = TRUE
    /\ next_event_id = 1
    /\ sent_openai = <<SessionUpdate(FALSE)>>
    /\ sent_twilio = <<>>
    /\ published = <<>>
    /\ redis_writes = <<>>
    /\ last_event = [leg |-> "telephony", event |-> "connected"]
    /\ dispatched = {}
    /\ mark_order = <<>>
    /\ marks_sent = 0
    /\ RouterIdle

(***************************************************************************)
(* receive_from_twilio: one action per frame read from the telephony leg.  *)
(***************************************************************************)
RecvReads == recv_pc = "running" /\ twilio_ws = "OPEN"

\* a pop() that removes the newest entry
PopLast(queue) == SubSeq(queue, 1, Len(queue) - 1)

\* mark_queue.pop(0)
PopFirst(queue) == Tail(queue)

\* the timestamp field of a media frame is decimal text
TimestampText(ts) ==
    CASE ts = 0 -> "0"
      [] ts = 2000 -> "2000"
      [] ts = 5000 -> "5000"
      [] OTHER -> "-1"

\* int(data['media']['timestamp'])
IntOf(text) == CHOOSE ts \in Timestamps : TimestampText(ts) = text

\* an append that carries no audio
AudioAppendEmpty(payload) == [type |-> "input_audio_buffer.append", audio |-> ""]

\* lines 274-277: audio_append
AudioAppend(payload) == [type |-> "input_audio_buffer.append", audio |-> payload]

\* 'media' frame; timestamps of a stream do not decrease
TwilioMedia(ts, payload) ==
    /\ RecvReads
    /\ ts >= latest_media_timestamp
    /\ last_event' = [leg |-> "telephony", event |-> "media",
                      timestamp |-> TimestampText(ts), payload |-> payload]
    /\ IF openai_ws = "OPEN"
       THEN /\ latest_media_timestamp' = IntOf(TimestampText(ts))
            /\ sent_openai' = <<AudioAppend(payload)>>
       ELSE /\ UNCHANGED latest_media_timestamp
            /\ sent_openai' = <<>>
    /\ sent_twilio' = <<>> /\ published' = <<>> /\ redis_writes' = <<>>
    /\ UNCHANGED <<router, stream_sid, call_sid, last_assistant_item, mark_queue,
                   response_start_timestamp_twilio, should_end, sockets, pumps,
                   hangup_calls, redis_connected, next_event_id, history>>

\* a receive pump that declares both names nonlocal
StartNonlocals == [response_start |-> NoTimestamp, item |-> None]

\* lines 287 and 289 bind names local to receive_from_twilio (line 268 does not
\* declare them nonlocal): the session keeps its values
StartLocals ==
    [response_start |-> response_start_timestamp_twilio, item |-> last_assistant_item]

\* 'start' frame; lookup_ok: get_call, get_business and get_owner all return a row.
\* response_start_timestamp_twilio and last_assistant_item are not declared nonlocal
\* in receive_from_twilio, so the assignments of lines 288 and 290 bind locals.
TwilioStart(sid, csid, lookup_ok) ==
    /\ RecvReads
    /\ last_event' = [leg |-> "telephony", event |-> "start",
                      streamSid |-> sid, callSid |-> csid]
    /\ stream_sid' = sid
    /\ call_sid' = csid
    /\ IF lookup_ok /\ openai_ws = "OPEN"
       THEN /\ sent_openai' = <<SessionUpdate(TRUE)>>
            /\ response_start_timestamp_twilio' = StartLocals.response_start
            /\ latest_media_timestamp' = 0
            /\ last_assistant_item' = StartLocals.item
            /\ UNCHANGED recv_pc
       ELSE /\ sent_openai' = <<>>
            /\ recv_pc' = "failed"
            /\ UNCHANGED <<latest_media_timestamp, last_assistant_item,
                           response_start_timestamp_twilio>>
    /\ sent_twilio' = <<>> /\ published' = <<>> /\ redis_writes' = <<>>
    /\ UNCHANGED <<router, mark_queue, should_end, sockets, send_pc, handler_pc,
                   hangup_calls, redis_connected, next_event_id, history>>

\* 'mark' frame: a playback acknowledgement
TwilioMark ==
    /\ RecvReads
    /\ last_event' = [leg |-> "telephony", event |-> "mark"]
    /\ IF mark_queue # <<>>
       THEN /\ mark_queue' = PopFirst(mark_queue)
            /\ mark_order' = PopFirst(mark_order)
       ELSE UNCHANGED <<mark_queue, mark_order>>
    /\ sent_openai' = <<>> /\ sent_twilio' = <<>>
    /\ published' = <<>> /\ redis_writes' = <<>>
    /\ UNCHANGED <<router, stream_sid, call_sid, latest_media_timestamp, last_assistant_item,
                   response_start_timestamp_twilio, should_end, sockets, pumps,
                   hangup_calls, redis_connected, next_event_id, dispatched, marks_sent>>

\* any other well-formed frame ('connected', 'stop', 'dtmf'): no branch matches
TwilioOther ==
    /\ RecvReads
    /\ last_event' = [leg |-> "telephony", event |-> "stop"]
    /\ sent_openai' = <<>> /\ sent_twilio' = <<>>
    /\ published' = <<>> /\ redis_writes' = <<>>
    /\ UNCHANGED <<router, session, should_end, sockets, pumps, hangup_calls,
                   redis_connected, next_event_id, history>>

\* a frame json.loads rejects, or one without the keys read: the exception is not a
\* WebSocketDisconnect, so it leaves receive_from_twilio
TwilioMalformed ==
    /\ RecvReads
    /\ last_event' = [leg |-> "telephony", event |-> "malformed"]
    /\ recv_pc' = "failed"
    /\ sent_openai' = <<>> /\ sent_twilio' = <<>>
    /\ published' = <<>> /\ redis_writes' = <<>>
    /\ UNCHANGED <<router, session, should_end, sockets, send_pc, handler_pc, hangup_calls,
                   redis_connected, next_event_id, history>>

\* the telephony peer closes its socket
TwilioPeerClose ==
    /\ twilio_ws = "OPEN"
    /\ handler_pc = "running"
    /\ twilio_ws' = "CLOSED"
    /\ last_event' = [leg |-> "telephony", event |-> "peer_close"]
    /\ sent_openai' = <<>> /\ sent_twilio' = <<>>
    /\ published' = <<>> /\ redis_writes' = <<>>
    /\ UNCHANGED <<router, session, should_end, openai_ws, pumps, hangup_calls,
                   redis_connected, next_event_id, history>>

\* except WebSocketDisconnect: close the model socket if it is open
RecvDisconnect ==
    /\ recv_pc = "running"
    /\ twilio_ws = "CLOSED"
    /\ recv_pc' = "done"
    /\ openai_ws' = IF openai_ws = "OPEN" THEN "CLOSED_OK" ELSE openai_ws
    /\ last_event' = [leg |-> "telephony", event |-> "disconnect"]
    /\ sent_openai' = <<>> /\ sent_twilio' = <<>>
    /\ published' = <<>> /\ redis_writes' = <<>>
    /\ UNCHANGED <<router, session, should_end, twilio_ws, send_pc, handler_pc, hangup_calls,
                   redis_connected, next_event_id, history>>

(***************************************************************************)
(* send_to_twilio: one action per message read from the speech model.      *)
(***************************************************************************)
SendReads == send_pc = "running" /\ openai_ws = "OPEN"

\* an interruption not guarded by last_assistant_item
BargeInAlways == TRUE

\* line 347: if last_assistant_item
BargeIn == last_assistant_item # None

\* a guard that ignores mark_queue
PlaybackPendingNoQueue == response_start_timestamp_twilio # NoTimestamp

\* line 357: if mark_queue and response_start_timestamp_twilio is not None
PlaybackPending == mark_queue # <<>> /\ response_start_timestamp_twilio # NoTimestamp

\* an elapsed time that forgets the start of the response
ElapsedTimeNoStart == latest_media_timestamp

\* line 358: elapsed_time
ElapsedTime == latest_media_timestamp - response_start_timestamp_twilio

TruncateEvent ==
    [type |-> "conversation.item.truncate", item_id |-> last_assistant_item,
     content_index |-> 0, audio_end_ms |-> ElapsedTime]

ClearEvent == [event |-> "clear", streamSid |-> stream_sid]

MarkEvent == [event |-> "mark", streamSid |-> stream_sid, mark |-> "responsePart"]

\* a send_mark that sends nothing
MarkIsSentNever == FALSE

\* send_mark sends the mark request and appends to mark_queue only "if stream_sid"
MarkIsSent == stream_sid # None

\* handle_speech_started_event; a send on the closed telephony socket raises into
\* the except clause of send_to_twilio
handle_speech_started_event ==
    IF PlaybackPending
    THEN /\ sent_openai' = IF last_assistant_item # None THEN <<TruncateEvent>> ELSE <<>>
         /\ IF twilio_ws = "OPEN"
            THEN /\ sent_twilio' = <<ClearEvent>>
                 /\ mark_queue' = <<>>
                 /\ mark_order' = <<>>
                 /\ last_assistant_item' = None
                 /\ response_start_timestamp_twilio' = NoTimestamp
                 /\ UNCHANGED send_pc
            ELSE /\ sent_twilio' = <<>>
                 /\ send_pc' = "done"
                 /\ UNCHANGED <<mark_queue, mark_order, last_assistant_item,
                                response_start_timestamp_twilio>>
    ELSE /\ sent_openai' = <<>> /\ sent_twilio' = <<>>
         /\ UNCHANGED <<mark_queue, mark_order, last_assistant_item,
                        response_start_timestamp_twilio, send_pc>>

\* 'input_audio_buffer.speech_started'
OpenAISpeechStarted ==
    /\ SendReads
    /\ last_event' = [leg |-> "model", event |-> "input_audio_buffer.speech_started"]
    /\ IF BargeIn
       THEN handle_speech_started_event
       ELSE /\ sent_openai' = <<>> /\ sent_twilio' = <<>>
            /\ UNCHANGED <<mark_queue, mark_order, last_assistant_item,
                           response_start_timestamp_twilio, send_pc>>
    /\ published' = <<>> /\ redis_writes' = <<>>
    /\ UNCHANGED <<router, stream_sid, call_sid, latest_media_timestamp, should_end, sockets,
                   recv_pc, handler_pc, hangup_calls, redis_connected, next_event_id,
                   dispatched, marks_sent>>

\* 'response.audio.delta' carrying a 'delta'; item is None when the message has no
\* item_id.  send_mark sends and queues a mark only once stream_sid is bound.
OpenAIAudioDelta(item, delta) ==
    /\ SendReads
    /\ stream_sid = None \/ marks_sent < MaxMarks
    /\ last_event' = [leg |-> "model", event |-> "response.audio.delta",
                      item_id |-> item]
    /\ IF B64Decodes(delta) /\ twilio_ws = "OPEN"
       THEN /\ response_start_timestamp_twilio' =
                   IF response_start_timestamp_twilio = NoTimestamp
                   THEN latest_media_timestamp
                   ELSE response_start_timestamp_twilio
            /\ last_assistant_item' = IF item # None THEN item ELSE last_assistant_item
            /\ IF MarkIsSent
               THEN /\ sent_twilio' = <<[event |-> "media", streamSid |-> stream_sid,
                                         payload |-> B64Reencode(delta)],
                                        MarkEvent>>
                    /\ mark_queue' = Append(mark_queue, "responsePart")
                    /\ marks_sent' = marks_sent + 1
                    /\ mark_order' = Append(mark_order, marks_sent + 1)
               ELSE /\ sent_twilio' = <<[event |-> "media", streamSid |-> stream_sid,
                                         payload |-> B64Reencode(delta)]>>
                    /\ UNCHANGED <<mark_queue, marks_sent, mark_order>>
            /\ UNCHANGED send_pc
       ELSE /\ send_pc' = "done"
            /\ sent_twilio' = <<>>
            /\ UNCHANGED <<response_start_timestamp_twilio, last_assistant_item,
                           mark_queue, marks_sent, mark_order>>
    /\ sent_openai' = <<>> /\ published' = <<>> /\ redis_writes' = <<>>
    /\ UNCHANGED <<router, stream_sid, call_sid, latest_media_timestamp, should_end, sockets,
                   recv_pc, handler_pc, hangup_calls, redis_connected, next_event_id,
                   dispatched>>

\* 'response.function_call_arguments.done'; args_ok: the 'arguments' text is JSON
FunctionCall(calls, failures) ==
    \E c \in calls, id \in CallIds, fail \in failures, args_ok \in BOOLEAN :
        LET r == handle_function_call(c.name, c.arguments, stream_sid, call_sid,
                                      next_event_id, redis_connected, fail)
        IN  /\ SendReads
            /\ next_event_id <= MaxEvents
            /\ Cardinality(dispatched \cup {c.name}) <= MaxCalls
            /\ last_event' = [leg |-> "model",
                              event |-> "response.function_call_arguments.done",
                              name |-> c.name, arguments |-> c.arguments,
                              call_id |-> id, args_ok |-> args_ok, transport |-> fail]
            /\ IF args_ok
               THEN /\ sent_openai' =
                          <<[type |-> "conversation.item.create",
                             item |-> [type |-> "function_call_output",
                                       call_id |-> id, output |-> r.result]]>>
                    /\ published' = r.deliveries
                    /\ redis_writes' = r.writes
                    /\ next_event_id' = next_event_id + r.ids
                    /\ should_end' = TRUE
                    /\ dispatched' = dispatched \cup {c.name}
                    /\ pubsub' = Deliver(pubsub, r.deliveries, Subscribed)
                    /\ UNCHANGED send_pc
               ELSE /\ send_pc' = "done"
                    /\ sent_openai' = <<>> /\ published' = <<>> /\ redis_writes' = <<>>
                    /\ UNCHANGED <<next_event_id, should_end, dispatched, pubsub>>
            /\ sent_twilio' = <<>>
            /\ UNCHANGED <<session, sockets, recv_pc, handler_pc, hangup_calls,
                           redis_connected, mark_order, marks_sent,
                           running, consumer_pc, handling, processed>>

OpenAIFunctionCall == FunctionCall(BridgeCalls, BridgeFailures)

\* any other well-formed message ('response.done', 'session.created', ...)
OpenAIOther ==
    /\ SendReads
    /\ last_event' = [leg |-> "model", event |-> "response.done"]
    /\ sent_openai' = <<>> /\ sent_twilio' = <<>>
    /\ published' = <<>> /\ redis_writes' = <<>>
    /\ UNCHANGED <<router, session, should_end, sockets, pumps, hangup_calls,
                   redis_connected, next_event_id, history>>

\* a message json.loads rejects: caught by the except clause around the loop
OpenAIMalformed ==
    /\ SendReads
    /\ last_event' = [leg |-> "model", event |-> "malformed"]
    /\ send_pc' = "done"
    /\ sent_openai' = <<>> /\ sent_twilio' = <<>>
    /\ published' = <<>> /\ redis_writes' = <<>>
    /\ UNCHANGED <<router, session, should_end, sockets, recv_pc, handler_pc, hangup_calls,
                   redis_connected, next_event_id, history>>

\* the speech model closes its socket, cleanly or not
OpenAIPeerClose(clean) ==
    /\ openai_ws = "OPEN"
    /\ openai_ws' = IF clean THEN "CLOSED_OK" ELSE "CLOSED_ERROR"
    /\ last_event' = [leg |-> "model", event |-> "peer_close"]
    /\ sent_openai' = <<>> /\ sent_twilio' = <<>>
    /\ published' = <<>> /\ redis_writes' = <<>>
    /\ UNCHANGED <<router, session, should_end, twilio_ws, pumps, hangup_calls,
                   redis_connected, next_event_id, history>>

\* the async for over openai_ws ends: normally after a clean close, and then
\* should_end decides on hangup_call; with ConnectionClosedError otherwise
SendLoopEnd ==
    /\ send_pc = "running"
    /\ openai_ws # "OPEN"
    /\ send_pc' = "done"
    /\ hangup_calls' = IF openai_ws = "CLOSED_OK" /\ should_end
                       THEN Append(hangup_calls, call_sid)
                       ELSE hangup_calls
    /\ last_event' = [leg |-> "model", event |-> "loop_end"]
    /\ sent_openai' = <<>> /\ sent_twilio' = <<>>
    /\ published' = <<>> /\ redis_writes' = <<>>
    /\ UNCHANGED <<router, session, should_end, sockets, recv_pc, handler_pc,
                   redis_connected, next_event_id, history>>

\* asyncio.gather returns (both pumps returned) or raises (receive_from_twilio
\* raised); leaving the async with block closes the model socket, and the server
\* closes the telephony socket of an endpoint that has returned
HandlerExit ==
    /\ handler_pc = "running"
    /\ recv_pc = "failed" \/ (recv_pc = "done" /\ send_pc = "done")
    /\ handler_pc' = "exited"
    /\ openai_ws' = IF openai_ws = "OPEN" THEN "CLOSED_OK" ELSE openai_ws
    /\ twilio_ws' = "CLOSED"
    /\ last_event' = [leg |-> "telephony", event |-> "handler_exit"]
    /\ sent_openai' = <<>> /\ sent_twilio' = <<>>
    /\ published' = <<>> /\ redis_writes' = <<>>
    /\ UNCHANGED <<router, session, should_end, recv_pc, send_pc, hangup_calls,
                   redis_connected, next_event_id, history>>

Next ==
    \/ \E ts \in Timestamps, payload \in Payloads : TwilioMedia(ts, payload)
    \/ \E sid \in StreamSids, csid \in CallSids, lookup_ok \in BOOLEAN :
           TwilioStart(sid, csid, lookup_ok)
    \/ TwilioMark
    \/ TwilioOther
    \/ TwilioMalformed
    \/ TwilioPeerClose
    \/ RecvDisconnect
    \/ OpenAISpeechStarted
    \/ \E item \in ItemIds \cup {None}, delta \in Deltas : OpenAIAudioDelta(item, delta)
    \/ OpenAIFunctionCall
    \/ OpenAIOther
    \/ OpenAIMalformed
    \/ \E clean \in BOOLEAN : OpenAIPeerClose(clean)
    \/ SendLoopEnd
    \/ HandlerExit

Spec == Init /\ [][Next]_vars

\* the event loop runs every task that is ready
FairSpec ==
    /\ Spec
    /\ WF_vars(RecvDisconnect)
    /\ WF_vars(SendLoopEnd)
    /\ WF_vars(HandlerExit)

(***************************************************************************)
(* The dispatcher on its own: one function call per step, over every       *)
(* dictionary of GatherArguments, in a session with or without a stream.   *)
(***************************************************************************)
DispatchInit ==
    /\ stream_sid \in StreamSids \cup {None}
    /\ call_sid = (IF stream_sid = None THEN None ELSE "CA1")
    /\ latest_media_timestamp = 0
    /\ last_assistant_item = None
    /\ mark_queue = <<>>
    /\ response_start_timestamp_twilio = NoTimestamp
    /\ should_end = FALSE
    /\ twilio_ws = "OPEN"
    /\ openai_ws = "OPEN"
    /\ recv_pc = "running"
    /\ send_pc = "running"
    /\ handler_pc = "running"
    /\ hangup_calls = <<>>
    /\ redis_connected \in BOOLEAN
    /\ next_event_id = 1
    /\ sent_openai = <<SessionUpdate(stream_sid # None)>>
    /\ sent_twilio = <<>>
    /\ published = <<>>
    /\ redis_writes = <<>>
    /\ last_event = [leg |-> "telephony", event |-> "connected"]
    /\ dispatched = {}
    /\ mark_order = <<>>
    /\ marks_sent = 0
    /\ RouterIdle

DispatchNext == dispatched = {} /\ FunctionCall(GatherCalls, TransportFailures)

DispatchSpec == DispatchInit /\ [][DispatchNext]_vars

(***************************************************************************)
(* RedisClient.publish_event called directly, with inputs of the given     *)
(* sets, while fewer than limit event ids have been handed out.            *)
(***************************************************************************)
PublishEvent(types, datas, sids, failures, limit) ==
    \E t \in types, d \in datas, sid \in sids, fail \in failures :
        LET r == publish_event(t, d, sid, IF sid = None THEN None ELSE "CA1",
                               next_event_id, redis_connected, fail)
        IN  /\ next_event_id <= limit
            /\ last_event' = [leg |-> "bus", event |-> "publish", event_type |-> t,
                              data |-> d, stream_id |-> sid, transport |-> fail,
                              ok |-> r.ok]
            /\ published' = r.deliveries
            /\ redis_writes' = r.writes
            /\ next_event_id' = next_event_id + r.ids
            /\ pubsub' = Deliver(pubsub, r.deliveries, Subscribed)
            /\ sent_openai' = <<>> /\ sent_twilio' = <<>>
            /\ UNCHANGED <<session, should_end, sockets, pumps, hangup_calls,
                           redis_connected, history, running, consumer_pc, handling, processed>>

\* event types with and without an entry in the routing table
EventTypes == {"customer_data", "email_request", "high_priority", "call_summary"}

\* payloads with and without an urgency marker
EventData ==
    {[full_name |-> Name2], [full_name |-> Name2, urgency |-> "high"],
     [full_name |-> Name2, urgency |-> "urgent"], [full_name |-> Name2, urgency |-> "low"]}

(***************************************************************************)
(* The callers of publish_event: a session that dispatches function calls  *)
(* and relays audio, and a direct caller, with the bus connected or not.   *)
(***************************************************************************)
SessionFunctionCall == FunctionCall(SessionCalls, TransportFailures)

\* a direct caller that publishes customer data, urgent or not
CallerPublish ==
    PublishEvent({"customer_data"},
                 {[full_name |-> Name2], [full_name |-> Name2, urgency |-> "high"]},
                 StreamSids \cup {None}, TransportFailures, MaxPublishes)

CallerNext ==
    \/ SessionFunctionCall
    \/ \E item \in ItemIds \cup {None}, delta \in Deltas : OpenAIAudioDelta(item, delta)
    \/ CallerPublish

CallerSpec == DispatchInit /\ [][CallerNext]_vars

(***************************************************************************)
(* The bus on its own: direct publications while the router is subscribed  *)
(* and has not polled yet, so that its subscription holds every message    *)
(* delivered on the channels of the routing table.                         *)
(***************************************************************************)
\* start_consuming after subscribe_to_channels has returned (lines 92-98)
RouterSubscribed ==
    /\ running = TRUE
    /\ consumer_pc = "polling"
    /\ pubsub = <<>>
    /\ handling = <<>>
    /\ processed = <<>>

\* no call is bridged
NoSession ==
    /\ stream_sid = None
    /\ call_sid = None
    /\ latest_media_timestamp = 0
    /\ last_assistant_item = None
    /\ mark_queue = <<>>
    /\ response_start_timestamp_twilio = NoTimestamp
    /\ should_end = FALSE
    /\ twilio_ws = "CLOSED"
    /\ openai_ws = "CLOSED_OK"
    /\ recv_pc = "done"
    /\ send_pc = "done"
    /\ handler_pc = "exited"
    /\ hangup_calls = <<>>
    /\ sent_openai = <<>>
    /\ sent_twilio = <<>>
    /\ dispatched = {}
    /\ mark_order = <<>>
    /\ marks_sent = 0

BusInit ==
    /\ NoSession
    /\ RouterSubscribed
    /\ redis_connected \in BOOLEAN
    /\ next_event_id = 1
    /\ published = <<>>
    /\ redis_writes = <<>>
    /\ last_event = [leg |-> "bus", event |-> "connected"]

BusNext ==
    PublishEvent(EventTypes, EventData, StreamSids \cup {None},
                 {"none", "publish", "setex", "priority"}, MaxPublishes)

BusSpec == BusInit /\ [][BusNext]_vars

(***************************************************************************)
(* Event router: services/redis_consumer_service.py.  A message is the     *)
(* decoded envelope, or a record with the field raw when the text is not   *)
(* JSON.                                                                   *)
(***************************************************************************)
\* the event_id of a message that carries none
NoEventId == 0

EventIdOf(message) ==
    IF "event_id" \in DOMAIN message THEN message.event_id ELSE NoEventId

\* a table of handlers without the one for customer data
EventHandlersNoCustomerData == {"customer_data_invalid", "meeting_scheduled", "high_priority"}

\* _setup_event_handlers: the event types with a registered handler
EventHandlers == {"customer_data", "customer_data_invalid", "meeting_scheduled",
                  "high_priority"}

\* json.loads(message)
JsonLoads(message) == "raw" \notin DOMAIN message

\* a processor that leaves an absent timestamp absent
EnsureTimestampNever(raw_data) == raw_data

\* validation_data of process_customer_data: timestamp added only when absent
EnsureTimestamp(raw_data) ==
    IF "timestamp" \in DOMAIN raw_data THEN raw_data ELSE WithTimestamp(raw_data)

\* dict(raw_data) succeeds: raw_data is a mapping, not a scalar
IsMapping(raw_data) == "scalar" \notin DOMAIN raw_data

\* CustomerDataProcessor.process_customer_data: the pair it returns, None being the
\* empty sequence, and whether an exception leaves it; both except clauses return
\* an error text
process_customer_data(raw_data) ==
    IF ~IsMapping(raw_data)
    THEN [customer_call |-> <<>>, error |-> <<"Processing failed">>, raised |-> FALSE]
    ELSE LET validation_data == FieldMapping(EnsureTimestamp(raw_data))
         IN  IF SchemaLoads(validation_data)
             THEN [customer_call |-> <<CustomerCall(validation_data)>>, error |-> <<>>,
                   raised |-> FALSE]
             ELSE [customer_call |-> <<>>,
                   error |-> <<"Validation failed", SchemaErrors(validation_data)>>,
                   raised |-> FALSE]

\* handle_event of the handler raises: event_data['data'] and event_data['timestamp']
\* are subscripted; the customer data handler reads the timestamp only for data
\* that validates
HandlerRaises(handler, event_data) ==
    \/ "data" \notin DOMAIN event_data
    \/ /\ "timestamp" \notin DOMAIN event_data
       /\ handler = "customer_data"
             => process_customer_data(event_data["data"]).customer_call # <<>>

\* settings.BUSINESS_WHATSAPP_NUMBER: not configured, or a number
BusinessWhatsApp == {None, "+15550100"}

\* a comparison that does not fold the case
LowerAsIs(value) == value

\* str.lower() of a contact method
Lower(value) ==
    CASE value = "Whatsapp" -> "whatsapp"
      [] value = "Email" -> "email"
      [] value = "Phone" -> "phone"
      [] OTHER -> value

\* datetime.fromisoformat(text).strftime('%Y-%m-%d %H:%M')
FormatMinute(text) == IF text = NowIso THEN "2026-01-01 10:00" ELSE "unparsed"

\* attribute of a CustomerCall, None when the field is absent
Attribute(customer_call, k) ==
    IF customer_call[k] = <<>> THEN None ELSE customer_call[k][1]

\* email_service.send_email(subject, template_name, data)
EmailCall(subject, template_name, data) ==
    [service |-> "email", subject |-> subject, template |-> template_name,
     data |-> data]

\* whatsapp_service.send_whatsapp(to_number, template_name, data)
WhatsAppCall(to_number, template_name, data) ==
    [service |-> "whatsapp", to |-> to_number, template |-> template_name,
     data |-> data]

\* CustomerDataEventHandler.handle_event: the calls of the delivery collaborators
\* made before it returns or raises
CustomerDataCalls(event_data, business_whatsapp) ==
    IF "data" \notin DOMAIN event_data THEN <<>>
    ELSE LET r == process_customer_data(event_data["data"])
         IN  IF r.customer_call = <<>> \/ "timestamp" \notin DOMAIN event_data
             THEN <<>>
             ELSE LET customer_call == r.customer_call[1]
                      method == Attribute(customer_call, "preferred_contact_method")
                      email_data ==
                          [timestamp |-> event_data["timestamp"],
                           stream_id |-> Get(event_data, "stream_id"),
                           full_name |-> Attribute(customer_call, "full_name"),
                           phone_number |-> Attribute(customer_call, "phone_number"),
                           address |-> Attribute(customer_call, "address"),
                           email |-> Attribute(customer_call, "email"),
                           reason_calling |-> Attribute(customer_call, "reason_calling"),
                           preferred_contact_method |-> method,
                           additional_notes |->
                               IF customer_call["additional_notes"] = <<>> THEN ""
                               ELSE customer_call["additional_notes"][1],
                           urgency |-> IF "urgency" \in DOMAIN event_data["data"]
                                       THEN event_data["data"]["urgency"]
                                       ELSE "medium"]
                      whatsapp_data ==
                          [timestamp |-> FormatMinute(event_data["timestamp"]),
                           full_name |-> Attribute(customer_call, "full_name"),
                           phone_number |-> Attribute(customer_call, "phone_number"),
                           address |-> Attribute(customer_call, "address"),
                           reason_calling |-> Attribute(customer_call, "reason_calling"),
                           preferred_contact_method |-> method]
                  IN  <<EmailCall(<<"New Customer Contact:",
                                    Attribute(customer_call, "full_name")>>,
                                  "customer_data", email_data)>>
                      \o (IF Lower(method) = "whatsapp" /\ business_whatsapp # None
                          THEN <<WhatsAppCall(business_whatsapp, "customer_data",
                                              whatsapp_data)>>
                          ELSE <<>>)

\* the handlers that send one email built from the envelope's data and timestamp
\* (and stream id); for high_priority a WhatsApp message follows when a business
\* number is configured
EnvelopeCalls(handler, event_data, business_whatsapp) ==
    IF "data" \notin DOMAIN event_data \/ "timestamp" \notin DOMAIN event_data
    THEN <<>>
    ELSE LET data == event_data["data"]
             stamped == With(data, [timestamp |-> event_data["timestamp"]])
             email_data ==
                 IF handler = "meeting_scheduled" THEN stamped
                 ELSE IF handler = "high_priority"
                 THEN With(stamped, [stream_id |-> Get(event_data, "stream_id")])
                 ELSE With(stamped,
                           [stream_id |-> Get(event_data, "stream_id"),
                            validation_error |->
                                IF "validation_error" \in DOMAIN data
                                THEN data["validation_error"]
                                ELSE <<"Unknown validation error">>])
             subject ==
                 IF handler = "meeting_scheduled"
                 THEN <<"Meeting Scheduled:",
                        IF "client_name" \in DOMAIN data THEN data["client_name"]
                        ELSE "Unknown Client">>
                 ELSE IF handler = "high_priority"
                 THEN <<"HIGH PRIORITY:",
                        IF "full_name" \in DOMAIN data THEN data["full_name"]
                        ELSE "Unknown Customer">>
                 ELSE <<"VALIDATION FAILED - Customer Data Needs Review">>
             whatsapp_data ==
                 [full_name |-> IF "full_name" \in DOMAIN data THEN data["full_name"]
                                ELSE "Unknown",
                  phone_number |-> IF "phone_number" \in DOMAIN data
                                   THEN data["phone_number"] ELSE "No phone",
                  reason_calling |-> IF "reason_calling" \in DOMAIN data
                                     THEN data["reason_calling"] ELSE "Not specified",
                  urgency |-> IF "urgency" \in DOMAIN data THEN data["urgency"]
                              ELSE "HIGH"]
         IN  <<EmailCall(subject, handler, email_data)>>
             \o (IF handler = "high_priority" /\ business_whatsapp # None
                 THEN <<WhatsAppCall(business_whatsapp, "high_priority", whatsapp_data)>>
                 ELSE <<>>)

\* handle_event of the handler the envelope was routed to
handle_event(handler, event_data, business_whatsapp) ==
    IF handler = "customer_data" THEN CustomerDataCalls(event_data, business_whatsapp)
    ELSE EnvelopeCalls(handler, event_data, business_whatsapp)

\* a router that looks at the channel before the event type
HandlerForChannelFirst(channel, event_data) ==
    IF channel = PriorityChannel THEN "high_priority"
    ELSE IF Get(event_data, "event_type") \in EventHandlers
    THEN Get(event_data, "event_type")
    ELSE None

\* lines 73-79: the handler process_event routes the envelope to, if any
HandlerFor(channel, event_data) ==
    IF Get(event_data, "event_type") \in EventHandlers
    THEN Get(event_data, "event_type")
    ELSE IF channel = PriorityChannel THEN "high_priority"
    ELSE None

\* an except clause that logs and raises again
ExceptReraise(handler, outcome) ==
    [handler |-> handler, outcome |-> outcome, raised |-> TRUE]

\* lines 81-84: the except clauses log the error and process_event returns
ExceptLogged(handler, outcome) ==
    [handler |-> handler, outcome |-> outcome, raised |-> FALSE]

\* RedisConsumerService.process_event: the handler invoked, what became of the
\* message, and whether an exception left process_event
process_event(channel, message) ==
    IF ~JsonLoads(message)
    THEN ExceptLogged(None, "invalid_json")
    ELSE LET handler == HandlerFor(channel, message)
         IN  IF handler = None
             THEN [handler |-> None, outcome |-> "dropped", raised |-> FALSE]
             ELSE IF HandlerRaises(handler, message)
             THEN ExceptLogged(handler, "handler_raised")
             ELSE [handler |-> handler, outcome |-> "handled", raised |-> FALSE]

\* start_consuming up to the loop: returns at once when the bus is not connected
StartConsuming ==
    /\ consumer_pc = "idle"
    /\ last_event' = [leg |-> "router", event |-> "start_consuming"]
    /\ IF redis_connected
       THEN /\ running' = TRUE
            /\ consumer_pc' = "polling"
       ELSE UNCHANGED <<running, consumer_pc>>
    /\ sent_openai' = <<>> /\ sent_twilio' = <<>>
    /\ published' = <<>> /\ redis_writes' = <<>>
    /\ UNCHANGED <<session, should_end, sockets, pumps, hangup_calls, redis_connected,
                   next_event_id, history, pubsub, handling, processed>>

\* a loop that starts process_event as a task of its own and polls again
AwaitsHandlerNever == FALSE

\* line 105: the loop awaits process_event before it polls again
AwaitsHandler == TRUE

\* a get_message that waits for a message without a timeout
PollTimesOutNever == FALSE

\* line 101: get_message(timeout=1.0) returns None when no message has arrived
PollTimesOut == TRUE

\* line 100 after a turn of the loop: an exception that left process_event or
\* running found false ends the loop, and the finally clause unsubscribes
LoopTest(raised) == IF raised \/ ~running THEN "stopped" ELSE "polling"

\* get_message returns a message while the loop waits in it: the message leaves
\* the subscription and process_event decodes and routes it.  Without a handler
\* process_event returns at once and the loop test follows; with a handler the
\* invocation of handle_event begins
PollMessage ==
    /\ consumer_pc = "polling"
    /\ pubsub # <<>>
    /\ LET channel == Head(pubsub).channel
           message == Head(pubsub).message
           r == process_event(channel, message)
           event_id == EventIdOf(message)
       IN  /\ last_event' = [leg |-> "router", event |-> "message",
                             channel |-> channel, event_id |-> event_id,
                             decoded |-> JsonLoads(message),
                             event_type |-> Get(message, "event_type"),
                             handler |-> r.handler,
                             outcome |-> IF r.handler = None THEN r.outcome
                                         ELSE "started"]
           /\ IF r.handler = None
              THEN /\ processed' = Append(processed,
                                          [channel |-> channel, event_id |-> event_id,
                                           handler |-> r.handler, outcome |-> r.outcome])
                   /\ consumer_pc' = LoopTest(r.raised)
                   /\ pubsub' = IF LoopTest(r.raised) = "stopped" THEN <<>>
                                ELSE Tail(pubsub)
                   /\ UNCHANGED handling
              ELSE /\ handling' = Append(handling,
                                         [channel |-> channel, message |-> message,
                                          handler |-> r.handler])
                   /\ consumer_pc' = IF AwaitsHandler THEN "handling" ELSE "polling"
                   /\ pubsub' = Tail(pubsub)
                   /\ UNCHANGED processed
    /\ sent_openai' = <<>> /\ sent_twilio' = <<>>
    /\ published' = <<>> /\ redis_writes' = <<>>
    /\ UNCHANGED <<session, should_end, sockets, pumps, hangup_calls, redis_connected,
                   next_event_id, history, running>>

\* what can go wrong inside send_email: EMAIL_PASS not configured, get_call or the
\* business lookup fails, the SMTP exchange fails
EmailFailures == {"none", "credentials", "lookup", "transport"}

\* what can go wrong inside send_whatsapp: no Twilio client was built, the
\* messages.create request fails
WhatsAppFailures == {"none", "client", "transport"}

\* the keys of EmailService.templates
EmailTemplates == {"customer_data", "meeting_scheduled", "high_priority"}

\* template.render(**data) raises: jinja renders a missing field as empty text, but
\* the customer_data template calls urgency.upper()
RenderRaises(template_name, data) ==
    template_name = "customer_data" /\ "urgency" \notin DOMAIN data

\* the fields of WhatsAppService.templates.get(template_name, "New update: {data}")
WhatsAppFields(template_name) ==
    CASE template_name = "customer_data" ->
             {"timestamp", "client_name", "phone_number", "address", "reason_calling",
              "preferred_contact_method"}
      [] template_name = "high_priority" ->
             {"client_name", "phone_number", "urgency", "reason_calling"}
      [] template_name = "meeting_scheduled" ->
             {"client_name", "preferred_date", "preferred_time", "meeting_type"}
      [] OTHER -> {"data"}

\* a collaborator whose except clause raises again
CaughtReraised == [returned |-> FALSE, raised |-> TRUE]

\* lines 247-249 and 87-89: except Exception logs and returns False
Caught == [returned |-> FALSE, raised |-> FALSE]

\* EmailService.send_email: what it returns and whether an exception leaves it
send_email(template_name, data, fail) ==
    IF fail = "credentials" \/ "call_sid" \notin DOMAIN data
    THEN [returned |-> FALSE, raised |-> FALSE]
    ELSE IF fail = "lookup" THEN Caught
    ELSE IF template_name \notin EmailTemplates THEN Caught
    ELSE IF RenderRaises(template_name, data) THEN Caught
    ELSE IF fail = "transport" THEN Caught
    ELSE [returned |-> TRUE, raised |-> FALSE]

\* WhatsAppService.send_whatsapp
send_whatsapp(template_name, data, fail) ==
    IF fail = "client"
    THEN [returned |-> FALSE, raised |-> FALSE]
    ELSE IF ~(WhatsAppFields(template_name) \subseteq DOMAIN data) THEN Caught
    ELSE IF fail = "transport" THEN Caught
    ELSE [returned |-> TRUE, raised |-> FALSE]

\* the result of each call of a delivery collaborator
Deliveries(calls, email_fail, whatsapp_fail) ==
    [i \in DOMAIN calls |->
        IF calls[i].service = "email"
        THEN send_email(calls[i].template, calls[i].data, email_fail)
        ELSE send_whatsapp(calls[i].template, calls[i].data, whatsapp_fail)]

\* handle_event returns or raises, process_event returns (lines 74, 77, 81-84), and
\* the loop test follows; an exception that leaves a collaborator leaves
\* handle_event too
HandleEvent(email_failures, whatsapp_failures) ==
    /\ handling # <<>>
    /\ \E business_whatsapp \in BusinessWhatsApp, email_fail \in email_failures,
          whatsapp_fail \in whatsapp_failures :
       LET h == Head(handling)
           r == process_event(h.channel, h.message)
           calls == handle_event(h.handler, h.message, business_whatsapp)
           results == Deliveries(calls, email_fail, whatsapp_fail)
           outcome == IF \E i \in DOMAIN results : results[i].raised
                      THEN ExceptLogged(h.handler, "handler_raised").outcome
                      ELSE r.outcome
           next_pc == IF consumer_pc = "handling" THEN LoopTest(r.raised)
                      ELSE consumer_pc
       IN  /\ last_event' = [leg |-> "router", event |-> "handler_return",
                             channel |-> h.channel, event_id |-> EventIdOf(h.message),
                             event_type |-> Get(h.message, "event_type"),
                             handler |-> h.handler, outcome |-> outcome,
                             business_whatsapp |-> business_whatsapp,
                             calls |-> calls,
                             email_fail |-> email_fail,
                             whatsapp_fail |-> whatsapp_fail,
                             results |-> results]
           /\ processed' = Append(processed,
                                  [channel |-> h.channel,
                                   event_id |-> EventIdOf(h.message),
                                   handler |-> h.handler, outcome |-> outcome])
           /\ handling' = Tail(handling)
           /\ consumer_pc' = next_pc
           /\ pubsub' = IF next_pc = "stopped" THEN <<>> ELSE pubsub
    /\ sent_openai' = <<>> /\ sent_twilio' = <<>>
    /\ published' = <<>> /\ redis_writes' = <<>>
    /\ UNCHANGED <<session, should_end, sockets, pumps, hangup_calls, redis_connected,
                   next_event_id, history, running>>

\* a handler returns while the delivery collaborators work
HandlerReturn == HandleEvent({"none"}, {"none"})

\* stop_consuming
StopConsuming ==
    /\ consumer_pc # "stopped"
    /\ running' = FALSE
    /\ last_event' = [leg |-> "router", event |-> "stop_consuming"]
    /\ sent_openai' = <<>> /\ sent_twilio' = <<>>
    /\ published' = <<>> /\ redis_writes' = <<>>
    /\ UNCHANGED <<session, should_end, sockets, pumps, hangup_calls, redis_connected,
                   next_event_id, history, consumer_pc, pubsub, handling, processed>>

\* get_message returns None after its timeout, the loop test finds running false,
\* and the finally clause unsubscribes
ConsumerLoopEnd ==
    /\ consumer_pc = "polling"
    /\ pubsub = <<>>
    /\ PollTimesOut
    /\ ~running
    /\ consumer_pc' = "stopped"
    /\ pubsub' = <<>>
    /\ last_event' = [leg |-> "router", event |-> "loop_end"]
    /\ sent_openai' = <<>> /\ sent_twilio' = <<>>
    /\ published' = <<>> /\ redis_writes' = <<>>
    /\ UNCHANGED <<session, should_end, sockets, pumps, hangup_calls, redis_connected,
                   next_event_id, history, running, handling, processed>>

\* what another client of the server may publish: text that is not JSON, an envelope
\* without data and timestamp, an envelope without event_type
ForeignMessages ==
    {[raw |-> "{not json"],
     [event_id |-> -1, event_type |-> "customer_data"],
     [event_id |-> -2, timestamp |-> NowIso, data |-> [full_name |-> Name2]]}

ForeignChannels == {"customer:data:new", PriorityChannel}

\* the messages of other clients received so far
ForeignReceived ==
    Cardinality({i \in DOMAIN pubsub : EventIdOf(pubsub[i].message) < 1})
    + Cardinality({i \in DOMAIN handling : EventIdOf(handling[i].message) < 1})
    + Cardinality({i \in DOMAIN processed : processed[i].event_id < 1})

\* another client publishes on a channel the router is subscribed to
ForeignPublish ==
    /\ Subscribed
    /\ ForeignReceived < MaxForeign
    /\ \E channel \in ForeignChannels, message \in ForeignMessages :
           /\ pubsub' = Append(pubsub, [channel |-> channel, message |-> message])
           /\ last_event' = [leg |-> "bus", event |-> "foreign_publish",
                             channel |-> channel]
    /\ sent_openai' = <<>> /\ sent_twilio' = <<>>
    /\ published' = <<>> /\ redis_writes' = <<>>
    /\ UNCHANGED <<session, should_end, sockets, pumps, hangup_calls, redis_connected,
                   next_event_id, history, running, consumer_pc, handling, processed>>

\* publications the router receives: routed types with and without handler, urgent
\* or not
RouterPublish ==
    PublishEvent({"customer_data", "email_request", "high_priority"},
                 {[full_name |-> Name2], [full_name |-> Name2, urgency |-> "high"]},
                 StreamSids, {"none"}, MaxEvents)

RouterInit ==
    /\ NoSession
    /\ RouterIdle
    /\ redis_connected \in BOOLEAN
    /\ next_event_id = 1
    /\ published = <<>>
    /\ redis_writes = <<>>
    /\ last_event = [leg |-> "bus", event |-> "connected"]

RouterNext ==
    \/ StartConsuming
    \/ PollMessage
    \/ HandlerReturn
    \/ StopConsuming
    \/ ConsumerLoopEnd
    \/ ForeignPublish
    \/ RouterPublish

RouterSpec == RouterInit /\ [][RouterNext]_vars

\* start_consuming runs as a task of the event loop: a get_message that can return
\* does return, and a handler that was called returns or raises
ConsumerLoop == PollMessage \/ HandlerReturn \/ ConsumerLoopEnd

\* the router while customer data with an urgency marker, which arrives on two
\* channels, and the messages of other clients are published
StopNext ==
    \/ StartConsuming
    \/ ConsumerLoop
    \/ StopConsuming
    \/ ForeignPublish
    \/ PublishEvent({"customer_data"}, {[full_name |-> Name2, urgency |-> "high"]},
                    StreamSids, {"none"}, MaxEvents)

FairRouterSpec == RouterInit /\ [][StopNext]_vars /\ WF_vars(ConsumerLoop)

\* customer data the handlers receive: a record that asks for WhatsApp, one that
\* asks for email through the alias, one without reason_calling, and one with an
\* urgency marker
HandlerData ==
    {[full_name |-> Name2, reason_calling |-> "leak",
      preferred_contact_method |-> "Whatsapp"],
     [full_name |-> Name2, reason_calling |-> "leak", preferred_contact |-> "Email",
      notes |-> "call back"],
     [full_name |-> Name2, preferred_contact_method |-> "Whatsapp"],
     [full_name |-> Name2, reason_calling |-> "leak",
      preferred_contact_method |-> "Whatsapp", urgency |-> "high"]}

HandlerPublish ==
    PublishEvent({"customer_data"}, HandlerData, StreamSids \cup {None}, {"none"},
                 MaxEvents)

HandlerNext ==
    \/ StartConsuming
    \/ ConsumerLoop
    \/ StopConsuming
    \/ ForeignPublish
    \/ HandlerPublish

HandlerSpec == RouterInit /\ [][HandlerNext]_vars

(***************************************************************************)
(* CustomerDataProcessor.process_customer_data applied to one payload.     *)
(***************************************************************************)
\* payloads: every dictionary of GatherArguments, without a timestamp, with one
\* that is an ISO date-time and with one that is not, and a value that is no mapping
ValidateInputs ==
    GatherArguments
    \cup {With(a, [timestamp |-> t]) : a \in GatherArguments, t \in {NowIso, "yesterday"}}
    \cup {[scalar |-> "text"]}

ValidateInit ==
    /\ NoSession
    /\ RouterIdle
    /\ redis_connected = TRUE
    /\ next_event_id = 1
    /\ published = <<>>
    /\ redis_writes = <<>>
    /\ last_event \in {[leg |-> "processor", event |-> "input", raw_data |-> d] :
                          d \in ValidateInputs}

Validate ==
    /\ last_event.event = "input"
    /\ last_event' = [leg |-> "processor", event |-> "validated",
                      raw_data |-> last_event.raw_data,
                      returned |-> process_customer_data(last_event.raw_data)]
    /\ UNCHANGED <<session, should_end, sockets, pumps, hangup_calls, redis_connected,
                   next_event_id, outputs, history, router>>

ValidateSpec == ValidateInit /\ [][Validate]_vars

(***************************************************************************)
(* Properties of the media bridge.                                         *)
(***************************************************************************)
SpeechStarted == "input_audio_buffer.speech_started"
FunctionCallDone == "response.function_call_arguments.done"

Truncates(msgs) == {i \in DOMAIN msgs : msgs[i].type = "conversation.item.truncate"}
Clears(msgs) == {i \in DOMAIN msgs : msgs[i].event = "clear"}
MediaOut(msgs) == {i \in DOMAIN msgs : msgs[i].event = "media"}

\* C1: every truncate instruction sent while a speech-started event is handled
\* carries audio_end_ms = latest_media_timestamp - response_start_timestamp_twilio,
\* both read at that moment, and names the item held in last_assistant_item.
C1_TruncateCarriesElapsed ==
    [][last_event'.event = SpeechStarted =>
          \A i \in Truncates(sent_openai') :
              /\ last_assistant_item # None
              /\ sent_openai'[i].audio_end_ms
                    = latest_media_timestamp - response_start_timestamp_twilio
              /\ sent_openai'[i].item_id = last_assistant_item]_vars

\* barge-in at 5000 ms into a response that started at 2000 ms: truncate at 3000 ms
C1_Witness ==
    /\ last_event.event = SpeechStarted
    /\ \E i \in Truncates(sent_openai) :
           sent_openai[i].audio_end_ms = 3000 /\ sent_openai[i].item_id = "item_A"

FullInterruption ==
    /\ Cardinality(Truncates(sent_openai')) = 1
    /\ Len(sent_openai') = 1
    /\ Cardinality(Clears(sent_twilio')) = 1
    /\ Len(sent_twilio') = 1
    /\ mark_queue' = <<>>
    /\ last_assistant_item' = None
    /\ response_start_timestamp_twilio' = NoTimestamp

NoInterruption ==
    /\ sent_openai' = <<>>
    /\ sent_twilio' = <<>>
    /\ UNCHANGED <<mark_queue, latest_media_timestamp,
                   response_start_timestamp_twilio, last_assistant_item>>

\* C2 as stated: every speech-started event that arrives while last_assistant_item
\* is set causes the full interruption, whatever the contents of mark_queue.
C2_InterruptsWheneverItemSet ==
    [][(last_event'.event = SpeechStarted /\ last_assistant_item # None)
          => FullInterruption]_vars

\* C2 amended: a speech-started event that arrives while last_assistant_item is set
\* causes the full interruption when mark_queue is non-empty and the telephony
\* socket is open, and is a no-op when mark_queue is empty.
C2_InterruptsWhilePlaybackPending ==
    [][(last_event'.event = SpeechStarted /\ last_assistant_item # None)
          => /\ (mark_queue # <<>> /\ twilio_ws = "OPEN") => FullInterruption
             /\ mark_queue = <<>> => NoInterruption]_vars

C2_Witness ==
    /\ last_event.event = SpeechStarted
    /\ Truncates(sent_openai) # {}
    /\ Clears(sent_twilio) # {}
    /\ mark_queue = <<>>
    /\ last_assistant_item = None
    /\ response_start_timestamp_twilio = NoTimestamp
    /\ marks_sent = 2

\* C3: a speech-started event that arrives while last_assistant_item is unset sends
\* nothing upstream or to telephony and leaves mark_queue, latest_media_timestamp,
\* response_start_timestamp_twilio and last_assistant_item unchanged.
C3_NoItemNoInterruption ==
    [][(last_event'.event = SpeechStarted /\ last_assistant_item = None)
          => NoInterruption]_vars

\* speech started after deltas without an item identifier: playback is pending
C3_Witness ==
    /\ last_event.event = SpeechStarted
    /\ last_assistant_item = None
    /\ mark_queue # <<>>
    /\ response_start_timestamp_twilio # NoTimestamp
    /\ sent_openai = <<>>
    /\ sent_twilio = <<>>

\* C4: a mark acknowledgement removes the oldest entry of mark_queue and only that
\* one; on an empty queue it raises no error and changes no session field.
C4_MarksPopOldestFirst ==
    [][last_event'.event = "mark" =>
          /\ recv_pc' = recv_pc
          /\ UNCHANGED <<stream_sid, call_sid, latest_media_timestamp,
                         last_assistant_item, response_start_timestamp_twilio>>
          /\ IF mark_queue = <<>>
             THEN mark_queue' = <<>>
             ELSE /\ Len(mark_queue') = Len(mark_queue) - 1
                  /\ \A i \in DOMAIN mark_order : mark_order[1] <= mark_order[i]
                  /\ mark_order' = [i \in 1..(Len(mark_order) - 1) |-> mark_order[i + 1]]
                  /\ Len(mark_queue') = Len(mark_order')]_vars

\* the first of two pending marks was acknowledged, the second is still queued
C4_Witness ==
    /\ last_event.event = "mark"
    /\ mark_order = <<2>>
    /\ mark_queue = <<"responsePart">>

\* C5: response_start_timestamp and last_assistant_item are both set or both unset.
C5_BothSetOrBothUnset ==
    (response_start_timestamp_twilio = NoTimestamp) <=> (last_assistant_item = None)

\* C6: a frame that fails to decode on either leg is dropped alone; both pumps
\* keep running.
C6_DecodeFailureKeepsPumps ==
    [][(\/ last_event'.event = "malformed"
        \/ (last_event'.event = FunctionCallDone /\ ~last_event'.args_ok))
          => (recv_pc' = recv_pc /\ send_pc' = send_pc)]_vars

PumpsEnded == recv_pc # "running" /\ send_pc # "running"

\* C7: a disconnect of either leg eventually closes the other leg and ends both pumps.
C7_DisconnectClosesOtherLeg ==
    /\ (twilio_ws = "CLOSED") ~> (openai_ws # "OPEN" /\ PumpsEnded)
    /\ (openai_ws # "OPEN") ~> (twilio_ws = "CLOSED" /\ PumpsEnded)

\* C8: the telephony provider is told to end the call leg only if
\* send_business_email was dispatched during the session.
C8_HangupOnlyAfterTermination ==
    hangup_calls # <<>> => "send_business_email" \in dispatched

\* C9: once a termination-signalling function has been dispatched and its result
\* relayed upstream, no further audio delta is forwarded to telephony and the
\* telephony provider is eventually told to end the call leg.
C9_TerminationCloses ==
    /\ [][("send_business_email" \in dispatched /\ should_end)
             => MediaOut(sent_twilio') = {}]_vars
    /\ ("send_business_email" \in dispatched) ~> (hangup_calls # <<>>)

(***************************************************************************)
(* Properties of the dispatcher.                                           *)
(***************************************************************************)
GatherHandled(e) ==
    /\ e.event = FunctionCallDone
    /\ e.args_ok
    /\ e.name = "gather_client_information"

Emitted(deliveries, event_type) ==
    {i \in DOMAIN deliveries : deliveries[i].message.event_type = event_type}

Acknowledgement(msgs) == msgs[1].item.output

\* the arguments carry a full_name of 2 to 100 characters, a reason_calling and a
\* preferred_contact_method of the closed set
CarriesRequired(a) ==
    /\ "full_name" \in DOMAIN a
    /\ Len(a["full_name"]) >= 2 /\ Len(a["full_name"]) <= 100
    /\ "reason_calling" \in DOMAIN a
    /\ "preferred_contact_method" \in DOMAIN a
    /\ a["preferred_contact_method"] \in {"Whatsapp", "Email", "Phone"}

\* C10 as stated: such arguments make dispatch emit exactly one customer_data
\* event and return validation_status passed.
C10_ValidGatherEmitsOne ==
    [][(GatherHandled(last_event') /\ CarriesRequired(last_event'.arguments))
          => /\ Cardinality(Emitted(published', "customer_data")) = 1
             /\ Len(published') = 1
             /\ Acknowledgement(sent_openai').validation_status = "passed"]_vars

\* the contact method once the alias preferred_contact has replaced it
ContactAfterAlias(a) ==
    IF "preferred_contact" \in DOMAIN a THEN a["preferred_contact"]
    ELSE IF "preferred_contact_method" \in DOMAIN a THEN a["preferred_contact_method"]
    ELSE "absent"

\* every key is a field of the record or one of the two aliases
OnlyRecordKeys(a) ==
    DOMAIN a \subseteq {"timestamp", "full_name", "phone_number", "email", "address",
                        "reason_calling", "preferred_contact_method",
                        "additional_notes", "preferred_contact", "notes"}

\* C10 amended: arguments whose keys are all record fields or aliases, with a
\* full_name of 2 to 100 characters, a reason_calling and, after aliasing, a
\* preferred_contact_method of the closed set, make dispatch return
\* validation_status passed and emit no customer_data_invalid event; it emits
\* exactly one customer_data event when the bus is connected and the publication
\* on the channel succeeds, and no event otherwise.
C10_ValidGatherPasses ==
    [][(/\ GatherHandled(last_event')
        /\ OnlyRecordKeys(last_event'.arguments)
        /\ "full_name" \in DOMAIN last_event'.arguments
        /\ Len(last_event'.arguments["full_name"]) >= 2
        /\ Len(last_event'.arguments["full_name"]) <= 100
        /\ "reason_calling" \in DOMAIN last_event'.arguments
        /\ ContactAfterAlias(last_event'.arguments) \in {"Whatsapp", "Email", "Phone"})
          => /\ Acknowledgement(sent_openai').validation_status = "passed"
             /\ Emitted(published', "customer_data_invalid") = {}
             /\ IF redis_connected /\ last_event'.transport # "publish"
                THEN /\ Cardinality(Emitted(published', "customer_data")) = 1
                     /\ Len(published') = 1
                ELSE published' = <<>>]_vars

\* a call that names its contact method by the alias only
C10_Witness ==
    /\ GatherHandled(last_event)
    /\ "preferred_contact" \in DOMAIN last_event.arguments
    /\ "preferred_contact_method" \notin DOMAIN last_event.arguments
    /\ "full_name" \in DOMAIN last_event.arguments
    /\ Len(last_event.arguments["full_name"]) = 100
    /\ Acknowledgement(sent_openai).validation_status = "passed"
    /\ Len(published) = 1
    /\ published[1].channel = "customer:data:new"
    /\ published[1].message.event_type = "customer_data"

\* the envelopes a step put on the bus, whatever the number of channels each went to
Envelopes(deliveries) == {deliveries[i].message : i \in DOMAIN deliveries}

LacksReason(e) == GatherHandled(e) /\ "reason_calling" \notin DOMAIN e.arguments

\* the envelope is a customer_data_invalid event whose data is the raw arguments
\* plus the error text, which names reason_calling
InvalidEnvelope(m, arguments) ==
    /\ m.event_type = "customer_data_invalid"
    /\ DOMAIN m.data = DOMAIN arguments \cup {"validation_error"}
    /\ \A k \in DOMAIN arguments : m.data[k] = arguments[k]
    /\ \E err \in m.data["validation_error"] : err[1] = "reason_calling"

\* C11 as stated: gather_client_information arguments that lack reason_calling make
\* dispatch emit exactly one customer_data_invalid event carrying the raw arguments
\* and the error text, emit no customer_data event and return validation_status
\* failed.
C11_InvalidGatherEmitsOne ==
    [][LacksReason(last_event')
          => /\ Cardinality(Envelopes(published')) = 1
             /\ \A m \in Envelopes(published') : InvalidEnvelope(m, last_event'.arguments)
             /\ Acknowledgement(sent_openai').validation_status = "failed"]_vars

\* C11 amended: such arguments make dispatch return validation_status failed and
\* emit no customer_data event; it emits exactly one customer_data_invalid event,
\* carrying the raw arguments and the error text, when the bus is connected and the
\* publication on the channel succeeds, and no event otherwise.
C11_InvalidGatherFails ==
    [][LacksReason(last_event')
          => /\ Acknowledgement(sent_openai').validation_status = "failed"
             /\ Emitted(published', "customer_data") = {}
             /\ \A m \in Envelopes(published') : InvalidEnvelope(m, last_event'.arguments)
             /\ IF redis_connected /\ last_event'.transport # "publish"
                THEN Cardinality(Envelopes(published')) = 1
                ELSE published' = <<>>]_vars

\* arguments complete but for reason_calling, marked urgent: one envelope, delivered
\* on the channel of invalid data and on the priority channel
C11_Witness ==
    /\ LacksReason(last_event)
    /\ DOMAIN last_event.arguments = {"full_name", "preferred_contact_method", "urgency"}
    /\ Acknowledgement(sent_openai).validation_status = "failed"
    /\ Len(published) = 2
    /\ published[1].channel = "customer:data:invalid"
    /\ InvalidEnvelope(published[1].message, last_event.arguments)

\* the step relayed upstream exactly one function result, with this call identifier
OneResultRelayed(msgs, id) ==
    /\ Len(msgs) = 1
    /\ msgs[1].type = "conversation.item.create"
    /\ msgs[1].item.type = "function_call_output"
    /\ msgs[1].item.call_id = id

\* C12: every function-call-arguments-complete event, whether validation passes or
\* fails and whether the function name is known or not, has exactly one function
\* result relayed upstream with its call identifier, and the model-to-telephony
\* pump keeps running afterwards.
C12_EveryCallGetsOneResult ==
    [][last_event'.event = FunctionCallDone
          => /\ OneResultRelayed(sent_openai', last_event'.call_id)
             /\ send_pc' = "running"]_vars

UnknownHandled(e) ==
    /\ e.event = FunctionCallDone
    /\ e.args_ok
    /\ e.name \notin KnownFunctions

\* C13: dispatching a function name other than gather_client_information,
\* set_up_meeting and send_business_email returns an error acknowledgement,
\* publishes no event and writes no session snapshot.
C13_UnknownFunctionEmitsNothing ==
    [][UnknownHandled(last_event')
          => /\ Acknowledgement(sent_openai').status = "error"
             /\ published' = <<>>
             /\ redis_writes' = <<>>
             /\ pubsub' = pubsub]_vars

\* a name that differs from a known one by case, on a connected bus without failure
C13_Witness ==
    /\ UnknownHandled(last_event)
    /\ last_event.name = "Set_Up_Meeting"
    /\ redis_connected
    /\ last_event.transport = "none"
    /\ Acknowledgement(sent_openai).status = "error"
    /\ published = <<>>
    /\ redis_writes = <<>>

MeetingOrEmailHandled(e) ==
    /\ e.event = FunctionCallDone
    /\ e.args_ok
    /\ e.name \in {"set_up_meeting", "send_business_email"}

\* the envelope has the event type of the function, the call's arguments as its
\* data and the session's identifiers as correlation keys
VerbatimEnvelope(m, e, sid, csid) ==
    /\ m.event_type = (IF e.name = "set_up_meeting" THEN "meeting_scheduled"
                       ELSE "email_request")
    /\ m.data = e.arguments
    /\ m.stream_id = sid
    /\ m.call_sid = csid

\* C14 as stated: dispatching set_up_meeting emits exactly one meeting_scheduled
\* event and dispatching send_business_email exactly one email_request event, with
\* data equal to the arguments and the session's stream and call identifiers.
C14_MeetingAndEmailEmitOne ==
    [][MeetingOrEmailHandled(last_event')
          => /\ Cardinality(Envelopes(published')) = 1
             /\ \A m \in Envelopes(published') :
                    VerbatimEnvelope(m, last_event', stream_sid, call_sid)]_vars

\* C14 amended: every envelope either dispatch emits has the function's event type,
\* data equal to the arguments and the session's stream and call identifiers; there
\* is exactly one such envelope when the bus is connected and the publication on
\* the channel succeeds, and none otherwise.
C14_MeetingAndEmailVerbatim ==
    [][MeetingOrEmailHandled(last_event')
          => /\ \A m \in Envelopes(published') :
                    VerbatimEnvelope(m, last_event', stream_sid, call_sid)
             /\ IF redis_connected /\ last_event'.transport # "publish"
                THEN Cardinality(Envelopes(published')) = 1
                ELSE published' = <<>>]_vars

\* an urgent email request in a started stream: one envelope on two channels
C14_Witness ==
    /\ MeetingOrEmailHandled(last_event)
    /\ last_event.name = "send_business_email"
    /\ stream_sid = "MZ1"
    /\ Len(published) = 2
    /\ published[1].channel = "customer:email:request"
    /\ published[1].message.call_sid = "CA1"
    /\ published[1].message.data = last_event.arguments
    /\ published[2].message = published[1].message

(***************************************************************************)
(* Properties of the event bus.                                            *)
(***************************************************************************)
PublishStep(e) == e.event = "publish"

\* C15: any two publish calls, including two with identical event_type and data,
\* produce envelopes with distinct event_id values and with data equal to what each
\* caller passed; the bus never deduplicates.  Stated for each call against every
\* envelope delivered by the calls before it.
C15_DistinctEventIds ==
    [][PublishStep(last_event')
          => /\ Cardinality(Envelopes(published')) <= 1
             /\ \A m \in Envelopes(published') :
                    /\ m.data = last_event'.data
                    /\ m.event_type = last_event'.event_type
                    /\ \A i \in DOMAIN pubsub : pubsub[i].message.event_id # m.event_id
             /\ (redis_connected /\ last_event'.transport = "none")
                    => Cardinality(Envelopes(published')) = 1]_vars

\* two calls with identical event_type, data and stream: two envelopes that differ
\* in event_id only
C15_Witness ==
    /\ PublishStep(last_event)
    /\ Len(pubsub) = 2
    /\ pubsub[1].channel = pubsub[2].channel
    /\ pubsub[1].message.event_type = pubsub[2].message.event_type
    /\ pubsub[1].message.data = pubsub[2].message.data
    /\ pubsub[1].message.stream_id = pubsub[2].message.stream_id
    /\ pubsub[1].message.event_id # pubsub[2].message.event_id
    /\ published = <<pubsub[2]>>

CarriesUrgency(data) == Get(data, "urgency") \in {"high", "urgent"}

\* C16 as stated: an envelope whose data carries urgency high or urgent is
\* delivered to both its canonical channel and the priority channel; an envelope
\* whose data has no urgency field is delivered only to its canonical channel.
C16_UrgentOnBothChannels ==
    [][(PublishStep(last_event') /\ published' # <<>>)
          => /\ published'[1].channel = ChannelOf(last_event'.event_type)
             /\ CarriesUrgency(last_event'.data)
                    => /\ Len(published') = 2
                       /\ published'[2].channel = PriorityChannel
             /\ "urgency" \notin DOMAIN last_event'.data => Len(published') = 1]_vars

\* C16 amended: an envelope that is delivered goes to its canonical channel first;
\* one whose data carries urgency high or urgent is then delivered unchanged to
\* the priority channel as well, unless the write of the persisted copy or the
\* publication on the priority channel fails; one with no urgency field, or with
\* any other urgency, is delivered only to its canonical channel.
C16_UrgentOnBothUnlessFailure ==
    [][(PublishStep(last_event') /\ published' # <<>>)
          => /\ published'[1].channel = ChannelOf(last_event'.event_type)
             /\ IF /\ CarriesUrgency(last_event'.data)
                   /\ last_event'.transport \notin {"setex", "priority"}
                THEN /\ Len(published') = 2
                     /\ published'[2].channel = PriorityChannel
                     /\ published'[2].message = published'[1].message
                ELSE Len(published') = 1]_vars

\* an urgent email request published without failure
C16_Witness ==
    /\ PublishStep(last_event)
    /\ last_event.event_type = "email_request"
    /\ Get(last_event.data, "urgency") = "urgent"
    /\ Len(published) = 2
    /\ published[1].channel = "customer:email:request"
    /\ published[2].channel = "customer:priority:high"
    /\ last_event.ok

\* the bus is not connected, or an operation the call performs raises
PublishFails(e, connected) ==
    \/ ~connected
    \/ e.transport \in {"publish", "setex"}
    \/ e.transport = "priority" /\ CarriesUrgency(e.data)

\* C17: publish never raises to its caller: when the transport is not connected or
\* a transport operation fails it returns false, and the calling session continues
\* to relay audio and to dispatch later function calls.
C17_PublishFailureContained ==
    /\ [][(PublishStep(last_event') /\ PublishFails(last_event', redis_connected))
             => (~last_event'.ok /\ UNCHANGED <<pumps, sockets>>)]_vars
    /\ [][(/\ last_event'.event = FunctionCallDone
           /\ last_event'.args_ok
           /\ (~redis_connected \/ last_event'.transport # "none"))
             => /\ OneResultRelayed(sent_openai', last_event'.call_id)
                /\ UNCHANGED <<pumps, sockets>>]_vars

\* with the bus down, a function was dispatched and the session then relayed an
\* audio delta to telephony
C17_Witness ==
    /\ ~redis_connected
    /\ dispatched # {}
    /\ last_event.event = "response.audio.delta"
    /\ MediaOut(sent_twilio) # {}
    /\ send_pc = "running"
    /\ recv_pc = "running"

(***************************************************************************)
(* Properties of the event router.                                         *)
(***************************************************************************)
RouterMessage(e) == e.event = "message"

\* the step in which process_event returns
ProcessEventReturns(e) ==
    \/ e.event = "message" /\ e.outcome # "started"
    \/ e.event = "handler_return"

\* C18: a failure in handling message N (the handler raises, the text is not JSON,
\* the envelope lacks expected fields) is contained: the polling loop goes on as
\* after a message that was handled (it polls again unless a stop was signalled),
\* message N is not redelivered, and message N+1 of the subscription is the next
\* one processed.
C18_RouterFailureContained ==
    [][(ProcessEventReturns(last_event') /\ last_event'.outcome # "handled")
          => /\ consumer_pc' = (IF running THEN "polling" ELSE "stopped")
             /\ running' = running
             /\ pubsub' = (IF ~running THEN <<>>
                           ELSE IF RouterMessage(last_event') THEN Tail(pubsub)
                           ELSE pubsub)
             /\ handling' = <<>>
             /\ Len(processed') = Len(processed) + 1]_vars

\* a handler raised on message N and message N+1, on the same channel, was handled
C18_Witness ==
    \E i \in DOMAIN processed :
        /\ processed[i].outcome = "handler_raised"
        /\ i + 1 \in DOMAIN processed
        /\ processed[i + 1].outcome = "handled"
        /\ processed[i + 1].channel = processed[i].channel
        /\ processed[i + 1].event_id # processed[i].event_id

\* C19: for each delivered message the router invokes exactly the handler
\* registered for the envelope's event_type if there is one; otherwise the
\* high-priority handler if the message arrived on the priority channel; otherwise
\* no handler.  A message that carries no envelope reaches no handler.
C19_RoutesByTypeThenChannel ==
    [][RouterMessage(last_event')
          => /\ last_event'.handler =
                   (IF ~last_event'.decoded THEN None
                    ELSE IF last_event'.event_type \in
                               {"customer_data", "customer_data_invalid",
                                "meeting_scheduled", "high_priority"}
                    THEN last_event'.event_type
                    ELSE IF last_event'.channel = "customer:priority:high"
                    THEN "high_priority"
                    ELSE None)
             /\ IF last_event'.handler = None
                THEN /\ handling' = handling
                     /\ Len(processed') = Len(processed) + 1
                     /\ processed'[Len(processed')].handler = None
                ELSE /\ processed' = processed
                     /\ Len(handling') = Len(handling) + 1
                     /\ handling'[Len(handling')].handler = last_event'.handler]_vars

\* an urgent email request: dropped on its canonical channel, then routed to the
\* high-priority handler on the priority channel
C19_Witness ==
    /\ last_event.event = "handler_return"
    /\ last_event.event_type = "email_request"
    /\ last_event.channel = "customer:priority:high"
    /\ last_event.handler = "high_priority"
    /\ Len(processed) = 2
    /\ processed[1].channel = "customer:email:request"
    /\ processed[1].handler = None
    /\ processed[1].event_id = processed[2].event_id

\* the handler invocations an event id has caused
Invocations(id) ==
    {i \in DOMAIN processed : processed[i].event_id = id /\ processed[i].handler # None}

\* C20: each published event instance is routed to notification handlers exactly
\* once: no event_id causes more than one handler invocation, envelopes with an
\* urgency marker and envelopes of type high_priority included.
C20_HandledAtMostOnce ==
    \A id \in 1..MaxEvents : Cardinality(Invocations(id)) <= 1

\* C21: inside one router at most one handler invocation is in progress at any
\* time: the loop takes no further message from the subscription until the handler
\* of the current message has returned or failed.
C21_OneHandlerAtATime ==
    [][/\ Len(handling') <= 1
       /\ RouterMessage(last_event') => handling = <<>>]_vars

\* a handler is in progress while the next message waits in the subscription
C21_Witness ==
    /\ Len(handling) = 1
    /\ consumer_pc = "handling"
    /\ pubsub # <<>>

\* a step of the loop taken after a stop was signalled
TurnAfterStop(e) ==
    /\ ~running
    /\ e.leg = "router"
    /\ e.event \in {"message", "handler_return", "loop_end"}

\* C22: once the loop is running and a stop is signalled, the loop exits after at
\* most one further poll, also when no message ever arrives, and it has
\* unsubscribed when it returns.
C22_StopEndsLoop ==
    /\ [][TurnAfterStop(last_event')
             => /\ consumer_pc' \in {"handling", "stopped"}
                /\ last_event'.event # "message" => consumer_pc' = "stopped"]_vars
    /\ [](consumer_pc = "stopped" => pubsub = <<>>)
    /\ (Subscribed /\ ~running) ~> (consumer_pc = "stopped")

\* a stop was signalled while the loop waited and no message ever arrived: the poll
\* timed out and the loop has ended
C22_Witness ==
    /\ consumer_pc = "stopped"
    /\ ~running
    /\ last_event.event = "loop_end"
    /\ processed = <<>>
    /\ handling = <<>>

(***************************************************************************)
(* Properties of validation.                                               *)
(***************************************************************************)
Validated(e) == e.leg = "processor" /\ e.event = "validated"

\* the value of preferred_contact_method after the alias preferred_contact is renamed
ContactAfterRename(d) ==
    IF "preferred_contact" \in DOMAIN d THEN d["preferred_contact"]
    ELSE Get(d, "preferred_contact_method")

\* full_name of 2 to 100 characters, reason_calling present, and a preferred contact
\* method of the closed set after the renaming
RecordConditions(d) ==
    /\ "full_name" \in DOMAIN d
    /\ Len(d["full_name"]) >= 2 /\ Len(d["full_name"]) <= 100
    /\ "reason_calling" \in DOMAIN d
    /\ ContactAfterRename(d) \in {"Whatsapp", "Email", "Phone"}

\* every key is a field of the record or an alias, and a timestamp that is present
\* is an ISO date-time
KnownKeysOnly(d) ==
    /\ DOMAIN d \subseteq {"timestamp", "full_name", "phone_number", "email", "address",
                           "reason_calling", "preferred_contact_method",
                           "additional_notes", "preferred_contact", "notes"}
    /\ "timestamp" \in DOMAIN d => d["timestamp"] = "2026-01-01T10:00:00"

\* a record or an error text, never both and never neither, and no exception
RecordOrError(r) ==
    /\ ~r.raised
    /\ Len(r.customer_call) + (IF r.error = <<>> THEN 0 ELSE 1) = 1

\* the record carries the payload's fields under their canonical names
RecordOf(r, d) ==
    /\ r.customer_call[1]["full_name"] = <<d["full_name"]>>
    /\ r.customer_call[1]["reason_calling"] = <<d["reason_calling"]>>
    /\ r.customer_call[1]["preferred_contact_method"] = <<ContactAfterRename(d)>>
    /\ r.customer_call[1]["additional_notes"] =
           (IF "notes" \in DOMAIN d THEN <<d["notes"]>>
            ELSE IF "additional_notes" \in DOMAIN d THEN <<d["additional_notes"]>>
            ELSE <<>>)

\* C23 as stated: validate returns a customer call record if and only if, after the
\* aliases are renamed, full_name is present with 2 to 100 characters, reason_calling
\* is present and preferred_contact_method is one of Whatsapp, Email, Phone; in
\* every other case it returns an error value and no record, never an exception.
C23_RecordIffConditions ==
    Validated(last_event)
        => /\ RecordOrError(last_event.returned)
           /\ last_event.returned.customer_call # <<>>
                 <=> RecordConditions(last_event.raw_data)

\* C23 amended: validate returns a record if and only if the conditions hold and,
\* in addition, every key of the payload is a field of the record or an alias and a
\* timestamp that is present is an ISO date-time; otherwise it returns an error
\* value and no record, and no exception leaves it.
C23_RecordIffConditionsAndKnownKeys ==
    Validated(last_event)
        => /\ RecordOrError(last_event.returned)
           /\ last_event.returned.customer_call # <<>>
                 <=> (RecordConditions(last_event.raw_data)
                      /\ KnownKeysOnly(last_event.raw_data))
           /\ last_event.returned.customer_call # <<>>
                 => RecordOf(last_event.returned, last_event.raw_data)

\* a payload without timestamp whose alias preferred_contact carries the contact
\* method was validated and a record was returned
C23_Witness ==
    /\ Validated(last_event)
    /\ "timestamp" \notin DOMAIN last_event.raw_data
    /\ "preferred_contact" \in DOMAIN last_event.raw_data
    /\ "preferred_contact_method" \notin DOMAIN last_event.raw_data
    /\ last_event.returned.customer_call # <<>>

(***************************************************************************)
(* Properties of the session's timing fields and of the telephony frames.  *)
(***************************************************************************)
\* C24: the audio_end_ms carried by any truncate instruction is never negative,
\* also when latest_media_timestamp is lower than response_start_timestamp_twilio
\* (after a start message reset latest_media_timestamp to 0).
C24_AudioEndNeverNegative ==
    \A i \in Truncates(sent_openai) : sent_openai[i].audio_end_ms >= 0

AudioDeltaForwarded(e, msgs) ==
    /\ e.event = "response.audio.delta"
    /\ MediaOut(msgs) # {}

\* the forwarded delta is followed by one mark request, and one entry is appended
OneMarkFollows ==
    /\ Len(sent_twilio') = 2
    /\ sent_twilio'[1].event = "media"
    /\ sent_twilio'[2].event = "mark"
    /\ mark_queue' = Append(mark_queue, "responsePart")

\* C25 as stated: every upstream audio delta that is forwarded to telephony is
\* followed by exactly one playback-mark request sent to telephony and exactly one
\* entry appended to mark_queue, also before a stream identifier has been bound.
C25_EveryDeltaMarked ==
    [][AudioDeltaForwarded(last_event', sent_twilio') => OneMarkFollows]_vars

\* C25 amended: a forwarded delta is followed by exactly one mark request and one
\* entry appended to mark_queue when a stream identifier has been bound; before
\* that the delta is forwarded alone and mark_queue stays as it is.
C25_DeltaMarkedOnceStreamBound ==
    [][AudioDeltaForwarded(last_event', sent_twilio')
          => IF stream_sid # None
             THEN /\ OneMarkFollows
                  /\ sent_twilio'[2].streamSid = stream_sid
             ELSE /\ Len(sent_twilio') = 1
                  /\ mark_queue' = mark_queue]_vars

\* the second delta of a bound stream was forwarded and its mark queued behind the
\* first
C25_Witness ==
    /\ last_event.event = "response.audio.delta"
    /\ stream_sid # None
    /\ Len(sent_twilio) = 2
    /\ sent_twilio[2].event = "mark"
    /\ Len(mark_queue) = 2

\* the forwarded delta names an item other than the one held in last_assistant_item
FirstDeltaOfItem(e) ==
    /\ e.item_id # None
    /\ e.item_id # last_assistant_item

\* C26: whenever last_assistant_item is set, response_start_timestamp_twilio is the
\* value latest_media_timestamp had when the first audio delta of that item was
\* forwarded: the first delta of an item records it, also when the item follows an
\* utterance that finished without interruption, and later deltas of the item keep
\* it.
C26_StartRecordedPerItem ==
    [][AudioDeltaForwarded(last_event', sent_twilio')
          => /\ FirstDeltaOfItem(last_event')
                  => response_start_timestamp_twilio' = latest_media_timestamp
             /\ (last_event'.item_id # None /\ ~FirstDeltaOfItem(last_event'))
                  => response_start_timestamp_twilio' = response_start_timestamp_twilio]_vars

\* the start frame was processed to its end: the lookups returned and the session
\* update was sent
StartProcessed(e) == e.event = "start" /\ recv_pc' = "running"

\* C27: after a start message has been processed, stream_sid and call_sid are bound
\* to the values in the message, latest_media_timestamp is 0, and the
\* response_start_timestamp_twilio and last_assistant_item read by the
\* model-to-telephony pump are unset.
C27_StartBindsAndResets ==
    [][StartProcessed(last_event')
          => /\ stream_sid' = last_event'.streamSid
             /\ call_sid' = last_event'.callSid
             /\ latest_media_timestamp' = 0
             /\ response_start_timestamp_twilio' = NoTimestamp
             /\ last_assistant_item' = None]_vars

TelephonyMedia(e) == e.leg = "telephony" /\ e.event = "media"

\* the number a decimal text denotes
Milliseconds(text) ==
    CASE text = "0" -> 0
      [] text = "2000" -> 2000
      [] text = "5000" -> 5000

\* C28: for every media frame received from telephony, the audio payload appended
\* upstream is the payload of the frame and latest_media_timestamp becomes the
\* frame's timestamp; when the upstream socket is not open the frame is not
\* forwarded and latest_media_timestamp stays as it is.  No other session field
\* changes in either case.
C28_MediaForwardedVerbatim ==
    [][TelephonyMedia(last_event')
          => /\ IF openai_ws = "OPEN"
                THEN /\ Len(sent_openai') = 1
                     /\ sent_openai'[1].type = "input_audio_buffer.append"
                     /\ sent_openai'[1].audio = last_event'.payload
                     /\ latest_media_timestamp' = Milliseconds(last_event'.timestamp)
                ELSE /\ sent_openai' = <<>>
                     /\ latest_media_timestamp' = latest_media_timestamp
             /\ UNCHANGED <<stream_sid, call_sid, last_assistant_item, mark_queue,
                            response_start_timestamp_twilio, should_end, sockets, pumps>>
             /\ sent_twilio' = <<>>]_vars

\* a media frame stamped 5000 ms followed one stamped 2000 ms and was appended
\* upstream
C28_Witness ==
    /\ TelephonyMedia(last_event)
    /\ last_event.timestamp = "5000"
    /\ latest_media_timestamp = 5000
    /\ sent_openai = <<[type |-> "input_audio_buffer.append", audio |-> "pcm2"]>>
    /\ openai_ws = "OPEN"

(***************************************************************************)
(* Properties of the persisted copy and of the notification handlers.      *)
(***************************************************************************)
\* C29: every publish that returns true has written exactly one persisted copy of
\* the envelope under the key customer:session:{stream_id}:{event_id}, stream_id
\* replaced by 'unknown' when absent, with a 24-hour expiry, and the persisted value
\* equals the envelope published on the channel.
C29_PublishedIsPersisted ==
    [][(PublishStep(last_event') /\ last_event'.ok)
          => /\ Len(redis_writes') = 1
             /\ published' # <<>>
             /\ published'[1].channel = ChannelOf(last_event'.event_type)
             /\ redis_writes'[1].value = published'[1].message
             /\ redis_writes'[1].ttl = 24 * 60 * 60
             /\ redis_writes'[1].key =
                   <<"customer:session",
                     IF last_event'.stream_id = None THEN "unknown"
                     ELSE last_event'.stream_id,
                     published'[1].message.event_id>>]_vars

\* a publish without stream id returned true and its copy is kept under 'unknown'
C29_Witness ==
    /\ PublishStep(last_event)
    /\ last_event.ok
    /\ last_event.stream_id = None
    /\ Len(redis_writes) = 1
    /\ redis_writes[1].key[2] = "unknown"
    /\ redis_writes[1].value.event_type = last_event.event_type

\* the customer_data handler returns from, or raises on, an envelope
CustomerDataHandled(e) ==
    /\ e.event = "handler_return"
    /\ e.handler = "customer_data"

CallsTo(calls, service) == {i \in DOMAIN calls : calls[i].service = service}

\* the data of the envelope passes validation
PassesValidation(envelope) ==
    /\ "data" \in DOMAIN envelope
    /\ RecordConditions(envelope["data"])
    /\ KnownKeysOnly(envelope["data"])

\* C30: the customer_data handler calls the email delivery collaborator once for
\* every envelope whose data passes validation, and additionally the WhatsApp
\* delivery collaborator exactly when the validated record's preferred contact
\* method is Whatsapp and a business number is configured; for an envelope whose
\* data fails validation it calls no delivery collaborator.
C30_CustomerDataDeliveries ==
    [][(CustomerDataHandled(last_event') /\ "timestamp" \in DOMAIN Head(handling).message)
          => LET envelope == Head(handling).message
                 calls == last_event'.calls
             IN  IF PassesValidation(envelope)
                 THEN /\ Cardinality(CallsTo(calls, "email")) = 1
                      /\ calls[1].service = "email"
                      /\ Cardinality(CallsTo(calls, "whatsapp")) =
                            (IF ContactAfterRename(envelope["data"]) = "Whatsapp"
                                /\ last_event'.business_whatsapp # None
                             THEN 1 ELSE 0)
                      /\ Len(calls) <= 2
                 ELSE calls = <<>>]_vars

\* an envelope whose record asks for WhatsApp was handled with a business number
\* configured: one email call, then one WhatsApp call
C30_Witness ==
    /\ CustomerDataHandled(last_event)
    /\ last_event.business_whatsapp # None
    /\ Len(last_event.calls) = 2
    /\ last_event.calls[1].service = "email"
    /\ last_event.calls[2].service = "whatsapp"
    /\ last_event.calls[2].data.preferred_contact_method = "Whatsapp"

(***************************************************************************)
(* The router with delivery collaborators that fail.                       *)
(***************************************************************************)
\* envelope data with and without the call id send_email looks up
DeliveryData ==
    {[full_name |-> Name2, call_sid |-> "CA1"],
     [full_name |-> Name2, call_sid |-> "CA1", urgency |-> "high"],
     [full_name |-> Name2, reason_calling |-> "leak",
      preferred_contact_method |-> "Whatsapp"]}

DeliveryPublish ==
    PublishEvent({"customer_data", "customer_data_invalid", "meeting_scheduled",
                  "high_priority"}, DeliveryData, StreamSids, {"none"}, MaxEvents)

DeliveryReturn == HandleEvent(EmailFailures, WhatsAppFailures)

DeliveryNext ==
    \/ StartConsuming
    \/ PollMessage
    \/ DeliveryReturn
    \/ StopConsuming
    \/ ConsumerLoopEnd
    \/ DeliveryPublish

DeliverySpec == RouterInit /\ [][DeliveryNext]_vars

\* the call of a delivery collaborator that failed inside its try block
FailedInside(call, email_fail, whatsapp_fail) ==
    IF call.service = "email"
    THEN /\ email_fail # "credentials"
         /\ "call_sid" \in DOMAIN call.data
         /\ \/ email_fail \in {"lookup", "transport"}
            \/ call.template \notin EmailTemplates
            \/ RenderRaises(call.template, call.data)
    ELSE /\ whatsapp_fail # "client"
         /\ \/ whatsapp_fail = "transport"
            \/ ~(WhatsAppFields(call.template) \subseteq DOMAIN call.data)

\* C31: when a handler returns, no call of a delivery collaborator has let an
\* exception out, whatever failed inside it (a missing template, a missing template
\* field, a failed lookup, a transport error): the collaborator returned false, and
\* what became of the message is what process_event makes of the envelope alone.
C31_DeliveryFailuresStayInside ==
    [][last_event'.event = "handler_return" =>
          LET e == last_event'
          IN  /\ \A i \in DOMAIN e.results :
                    /\ ~e.results[i].raised
                    /\ FailedInside(e.calls[i], e.email_fail, e.whatsapp_fail)
                          => ~e.results[i].returned
              /\ e.outcome = process_event(e.channel, Head(handling).message).outcome
      ]_vars

\* a handler returned after its email met a transport error and its message met a
\* missing template field
C31_Witness ==
    /\ last_event.event = "handler_return"
    /\ last_event.handler = "high_priority"
    /\ last_event.email_fail = "transport"
    /\ Len(last_event.calls) = 2
    /\ FailedInside(last_event.calls[1], "transport", "none")
    /\ FailedInside(last_event.calls[2], "transport", "none")
    /\ last_event.outcome = "handled"

\* a step of the telephony-to-model pump, of the model-to-telephony pump
TelephonyPumpStep == last_event'.leg = "telephony"

ModelPumpStep == last_event'.leg = "model"

\* the fields only receive_from_twilio assigns, and those only send_to_twilio and
\* handle_speech_started_event assign
TelephonyFields == <<stream_sid, call_sid, latest_media_timestamp>>

ModelFields == <<response_start_timestamp_twilio, last_assistant_item>>

\* C32 as stated: every field of the session has one writer. Entries come into
\* mark_queue from the model-to-telephony pump alone, so mark_queue has one writer
\* exactly when no step of the telephony-to-model pump changes it.
C32_SingleWriterPerField ==
    [][/\ ModelPumpStep => UNCHANGED TelephonyFields
       /\ TelephonyPumpStep => UNCHANGED ModelFields
       /\ TelephonyPumpStep => UNCHANGED mark_queue]_vars

\* C32: stream_sid, call_sid and latest_media_timestamp are written by the
\* telephony-to-model pump only, response_start_timestamp_twilio and
\* last_assistant_item by the model-to-telephony pump only; mark_queue is modified by
\* both: the model-to-telephony pump appends one tag or clears it, the
\* telephony-to-model pump removes its oldest entry.
C32_SingleWriterButMarkQueue ==
    [][/\ ModelPumpStep =>
            /\ UNCHANGED TelephonyFields
            /\ mark_queue' \in {mark_queue, Append(mark_queue, "responsePart"), <<>>}
       /\ TelephonyPumpStep =>
            /\ UNCHANGED ModelFields
            /\ \/ mark_queue' = mark_queue
               \/ mark_queue # <<>> /\ mark_queue' = Tail(mark_queue)]_vars

\* an acknowledgement has removed the tag the other pump appended, in a session
\* that was started and whose utterance is still the pending one
C32_Witness ==
    /\ last_event.event = "mark"
    /\ marks_sent = 1
    /\ mark_queue = <<>>
    /\ last_assistant_item # None
    /\ response_start_timestamp_twilio # NoTimestamp

(***************************************************************************)
(* send_mark step by step: the send pump is suspended in                   *)
(* connection.send_json (line 390) before it appends the tag (line 391),   *)
(* and the receive pump runs meanwhile.                                    *)
(***************************************************************************)
\* 'response.audio.delta' up to the await of line 390
MarkRequest(item) ==
    /\ SendReads
    /\ twilio_ws = "OPEN"
    /\ stream_sid = None \/ marks_sent < MaxMarks
    /\ last_event' = [leg |-> "model", event |-> "response.audio.delta",
                      item_id |-> item]
    /\ response_start_timestamp_twilio' =
           IF response_start_timestamp_twilio = NoTimestamp
           THEN latest_media_timestamp
           ELSE response_start_timestamp_twilio
    /\ last_assistant_item' = IF item # None THEN item ELSE last_assistant_item
    /\ IF MarkIsSent
       THEN /\ sent_twilio' = <<[event |-> "media", streamSid |-> stream_sid,
                                 payload |-> "pcm1"],
                                MarkEvent>>
            /\ marks_sent' = marks_sent + 1
            /\ mark_order' = Append(mark_order, marks_sent + 1)
            /\ send_pc' = "send_mark"
       ELSE /\ sent_twilio' = <<[event |-> "media", streamSid |-> stream_sid,
                                 payload |-> "pcm1"]>>
            /\ UNCHANGED <<marks_sent, mark_order, send_pc>>
    /\ sent_openai' = <<>> /\ published' = <<>> /\ redis_writes' = <<>>
    /\ UNCHANGED <<router, stream_sid, call_sid, latest_media_timestamp, mark_queue,
                   should_end, sockets, recv_pc, handler_pc, hangup_calls,
                   redis_connected, next_event_id, dispatched>>

\* line 391, when send_json has returned
MarkAppend ==
    /\ send_pc = "send_mark"
    /\ last_event' = [leg |-> "model", event |-> "mark_appended"]
    /\ mark_queue' = Append(mark_queue, "responsePart")
    /\ send_pc' = "running"
    /\ sent_openai' = <<>> /\ sent_twilio' = <<>>
    /\ published' = <<>> /\ redis_writes' = <<>>
    /\ UNCHANGED <<router, stream_sid, call_sid, latest_media_timestamp,
                   last_assistant_item, response_start_timestamp_twilio, should_end,
                   sockets, recv_pc, handler_pc, hangup_calls, redis_connected,
                   next_event_id, history>>

\* lines 291-293 for the acknowledgement of a mark request that is outstanding
MarkAcknowledged ==
    /\ RecvReads
    /\ mark_order # <<>>
    /\ last_event' = [leg |-> "telephony", event |-> "mark"]
    /\ mark_order' = Tail(mark_order)
    /\ mark_queue' = IF mark_queue # <<>> THEN PopFirst(mark_queue) ELSE mark_queue
    /\ sent_openai' = <<>> /\ sent_twilio' = <<>>
    /\ published' = <<>> /\ redis_writes' = <<>>
    /\ UNCHANGED <<router, stream_sid, call_sid, latest_media_timestamp,
                   last_assistant_item, response_start_timestamp_twilio, should_end,
                   sockets, pumps, hangup_calls, redis_connected, next_event_id,
                   dispatched, marks_sent>>

MarkNext ==
    \/ \E sid \in StreamSids, csid \in CallSids : TwilioStart(sid, csid, TRUE)
    \/ \E ts \in Timestamps, payload \in Payloads : TwilioMedia(ts, payload)
    \/ \E item \in ItemIds \cup {None} : MarkRequest(item)
    \/ MarkAppend
    \/ MarkAcknowledged
    \/ OpenAISpeechStarted

MarkSpec == Init /\ [][MarkNext]_vars

\* C33: whenever the send pump is not inside send_mark, mark_queue holds one entry
\* for each mark request sent to telephony since the last clear and not yet
\* acknowledged, however the two pumps interleave.
C33_QueueCountsUnacknowledged ==
    send_pc # "send_mark" => Len(mark_queue) = Len(mark_order)

(***************************************************************************)
(* The dispatcher over arguments that carry a timestamp of their own.      *)
(***************************************************************************)
\* arguments without a timestamp, with an ISO date-time and with other text
StampedArguments ==
    {a \in GatherArguments : "full_name" \in DOMAIN a => a["full_name"] = Name2}
    \cup {With(a, [timestamp |-> t]) :
             a \in {b \in GatherArguments :
                       "full_name" \in DOMAIN b => b["full_name"] = Name2},
             t \in {NowIso, "yesterday"}}

StampedCalls ==
    {[name |-> "gather_client_information", arguments |-> a] : a \in StampedArguments}

StampedNext == dispatched = {} /\ FunctionCall(StampedCalls, {"none"})

StampedSpec == DispatchInit /\ [][StampedNext]_vars

\* C34: every customer_data event a gather_client_information dispatch emits has
\* envelope data that passes process_customer_data, so that the customer_data
\* handler reaches its delivery call for it; this covers arguments with alias keys
\* and arguments with a timestamp field of their own.
C34_DispatcherAndHandlerAgree ==
    [][GatherHandled(last_event')
          => \A i \in Emitted(published', "customer_data") :
                 LET m == published'[i].message
                 IN  /\ process_customer_data(m.data).customer_call # <<>>
                     /\ \A business_whatsapp \in BusinessWhatsApp :
                            handle_event("customer_data", m, business_whatsapp) # <<>>
      ]_vars

\* a known function was dispatched
KnownHandled(e) ==
    /\ e.event = FunctionCallDone
    /\ e.args_ok
    /\ e.name \in KnownFunctions

\* the bus is unavailable: not connected, or the publication on the channel fails
BusUnavailable(e, connected) == ~connected \/ e.transport = "publish"

\* C35: the acknowledgement dispatch returns is the one it returns with a working
\* bus, whatever becomes of the publication; with the bus unavailable no event is
\* emitted and gather_client_information with valid arguments still returns
\* validation_status passed, set_up_meeting and send_business_email still return
\* success.
C35_AcknowledgementIgnoresPublish ==
    [][KnownHandled(last_event')
          => LET e == last_event'
                 ack == Acknowledgement(sent_openai')
             IN  /\ ack = handle_function_call(e.name, e.arguments, stream_sid, call_sid,
                                               next_event_id, TRUE, "none").result
                 /\ BusUnavailable(e, redis_connected)
                       => /\ published' = <<>>
                          /\ pubsub' = pubsub
                          /\ IF e.name = "gather_client_information"
                             THEN SchemaLoads(FieldMapping(WithTimestamp(e.arguments)))
                                      => ack.validation_status = "passed"
                             ELSE ack.status = "success"
      ]_vars

\* valid customer information was dispatched while the publication failed: passed,
\* and nothing emitted
C35_Witness ==
    /\ KnownHandled(last_event)
    /\ last_event.name = "gather_client_information"
    /\ redis_connected
    /\ last_event.transport = "publish"
    /\ Acknowledgement(sent_openai).validation_status = "passed"
    /\ published = <<>>

\* the publication on the canonical channel, the write of the persisted copy and,
\* for urgent data, the publication on the priority channel have all been done
AllCompleted(e, deliveries, writes) ==
    /\ Len(deliveries) >= 1
    /\ deliveries[1].channel = ChannelOf(e.event_type)
    /\ Len(writes) = 1
    /\ CarriesUrgency(e.data)
          => /\ Len(deliveries) = 2
             /\ deliveries[2].channel = PriorityChannel

\* C36 as stated: publish returns true exactly when the publication on the
\* canonical channel, the write of the persisted copy and, for urgent data, the
\* publication on the priority channel all completed; and every envelope that
\* reached a channel belongs to a call that returned true.
C36_TrueIffCompletedAndDelivered ==
    [][PublishStep(last_event')
          => /\ last_event'.ok <=> AllCompleted(last_event', published', redis_writes')
             /\ published' # <<>> => last_event'.ok]_vars

\* C36 amended: publish returns true exactly when the three operations all
\* completed; a call that returned true delivered its envelope, but an envelope that
\* reached the canonical channel belongs to a call that returned false when the
\* write of the persisted copy, or the publication on the priority channel for
\* urgent data, failed afterwards.
C36_TrueIffCompleted ==
    [][PublishStep(last_event')
          => /\ last_event'.ok <=> AllCompleted(last_event', published', redis_writes')
             /\ last_event'.ok => published' # <<>>
             /\ (published' # <<>> /\ ~last_event'.ok)
                    <=> /\ redis_connected
                        /\ \/ last_event'.transport = "setex"
                           \/ /\ last_event'.transport = "priority"
                              /\ CarriesUrgency(last_event'.data)]_vars

\* the write of the persisted copy failed: the envelope is on its channel and on
\* the subscription of the router, and publish returned false
C36_Witness ==
    /\ PublishStep(last_event)
    /\ last_event.transport = "setex"
    /\ ~last_event.ok
    /\ Len(published) = 1
    /\ redis_writes = <<>>
    /\ pubsub # <<>>
    /\ pubsub[Len(pubsub)] = published[1]

(***************************************************************************)
(* The router and publishers of events of every kind, with a scheduler     *)
(* that runs the polling loop whenever it can take a turn.                 *)
(***************************************************************************)
\* events of a type of the routing table, and the call_status events of the
\* /call-status webhook
ReceivePublish ==
    PublishEvent({"customer_data", "email_request", "call_status"},
                 {[full_name |-> Name2], [full_name |-> Name2, urgency |-> "high"],
                  [call_sid |-> "CA1", status |-> "completed", duration |-> "12"]},
                 StreamSids, {"none"}, MaxEvents)

ReceiveNext ==
    \/ StartConsuming
    \/ ConsumerLoop
    \/ StopConsuming
    \/ ReceivePublish

FairReceiveSpec == RouterInit /\ [][ReceiveNext]_vars /\ WF_vars(ConsumerLoop)

\* publish has just delivered the envelope with this event id
Delivered(id) == \E i \in DOMAIN published : published[i].message.event_id = id

\* process_event has been called with the envelope and has returned
Received(id) == \E j \in DOMAIN processed : processed[j].event_id = id

\* C37: every envelope publish delivers while the router is running and subscribed
\* is eventually received by process_event (unless the router is stopped first),
\* whatever its event type: also one whose type is not in the routing table and
\* which goes to the default channel.
C37_PublishedIsReceived ==
    \A id \in 1..MaxEvents :
        (Delivered(id) /\ running /\ Subscribed) ~> (Received(id) \/ ~running)

\* stop_consuming has just been invoked
StopRequested == last_event.event = "stop_consuming"

\* the polling loop of start_consuming is running
LoopRuns == consumer_pc \in {"polling", "handling"}

\* C38: a stop request is never lost: once stop_consuming has been invoked, also
\* before start_consuming has set the running flag, the polling loop eventually is
\* not running and stays so.
C38_StopIsNeverLost == StopRequested ~> [](~LoopRuns)

\* the keys of the arguments once the timestamp is set and the aliases are renamed
KeysAfterAliasing(arguments) == DOMAIN FieldMapping(WithTimestamp(arguments))

\* C39: the dispatcher reports validation passed only for arguments whose keys,
\* after aliasing, are all among the eight fields of the record; arguments with
\* any other key, such as urgency, are reported as customer_data_invalid, and no
\* customer_data event the dispatcher emits carries an urgency marker or is
\* delivered on the priority channel.
C39_UnknownKeysRejected ==
    [][GatherHandled(last_event')
          => LET e == last_event'
                 ack == Acknowledgement(sent_openai')
             IN  /\ Cardinality(SchemaFields) = 8
                 /\ ack.validation_status = "passed"
                       => KeysAfterAliasing(e.arguments) \subseteq SchemaFields
                 /\ ~(KeysAfterAliasing(e.arguments) \subseteq SchemaFields)
                       => /\ ack.validation_status = "failed"
                          /\ \A i \in DOMAIN published' :
                                 published'[i].message.event_type = "customer_data_invalid"
                 /\ \A i \in DOMAIN published' :
                        published'[i].message.event_type = "customer_data"
                            => /\ "urgency" \notin DOMAIN published'[i].message.data
                               /\ published'[i].channel # PriorityChannel
      ]_vars

\* arguments that are valid but for an urgency key: reported as failed, and the
\* customer_data_invalid event goes to the priority channel as well
C39_Witness ==
    /\ GatherHandled(last_event)
    /\ DOMAIN last_event.arguments =
           {"full_name", "reason_calling", "preferred_contact_method", "urgency"}
    /\ SchemaLoads(FieldMapping(WithTimestamp(
           [k \in DOMAIN last_event.arguments \ {"urgency"} |-> last_event.arguments[k]])))
    /\ Acknowledgement(sent_openai).validation_status = "failed"
    /\ Len(published) = 2
    /\ published[1].message.event_type = "customer_data_invalid"
    /\ published[2].channel = PriorityChannel

\* C40: a message received on the priority channel whose event_type has a
\* registered handler is handled by the handler of that type, not by the
\* high-priority handler; the high-priority handler runs only for envelopes of type
\* high_priority and for priority-channel envelopes whose event_type has no
\* registered handler.
C40_PriorityChannelRoutesByType ==
    [][last_event'.event = "handler_return"
          => LET e == last_event'
                 registered == e.event_type \in {"customer_data", "customer_data_invalid",
                                                 "meeting_scheduled", "high_priority"}
             IN  /\ (e.channel = PriorityChannel /\ registered)
                        => e.handler = e.event_type
                 /\ e.handler = "high_priority"
                        => \/ e.event_type = "high_priority"
                           \/ e.channel = PriorityChannel /\ ~registered
                 /\ processed'[Len(processed')].handler = e.handler
      ]_vars

\* urgent customer data received on the priority channel was handled by the
\* customer_data handler
C40_Witness ==
    /\ last_event.event = "handler_return"
    /\ last_event.channel = PriorityChannel
    /\ last_event.event_type = "customer_data"
    /\ last_event.handler = "customer_data"
    /\ processed[Len(processed)].channel = PriorityChannel
    /\ processed[Len(processed)].handler = "customer_data"

====
